---- MODULE Spec2Model ----
(***************************************************************************)
(* Model of blade's target module (src/src/blade/target.py): the Source    *)
(* Ownership Registry (Target.__src_target_map), the dependency resolver   *)
(* (_unify_dep, _init_target_deps, _add_location_reference_target,         *)
(* _add_hardcode_library), the system library registration, the rule       *)
(* generation cache (get_rules, ninja_build, the output file records), the *)
(* rule hash (rule_hash) and the command line normalization (normalize).   *)
(*                                                                         *)
(* Python strings are sequences of one-character strings, so that          *)
(* startswith, rsplit, os.path.join and os.path.normpath are computed as   *)
(* the code computes them.                                                 *)
(***************************************************************************)
EXTENDS Integers, Sequences, FiniteSets, TLC

VARIABLES
    src_target_map,     \* Target.__src_target_map: normalized source path -> <<fullname, allow>>
    target_database,    \* blade's target database: key -> index into targets
    targets,            \* the Target objects constructed so far, in construction order
    action,             \* config item global_config.duplicated_source_action
    aborted,            \* console.fatal was called: the process has exited
    calls,              \* how many constructions and resolutions were started
    last,               \* what the last operation did: its outcome, result and warnings
    stack               \* the frames of the rule_hash calls that have not returned

vars == <<src_target_map, target_database, targets, action, aborted, calls, last, stack>>

----------------------------------------------------------------------------
(* Bounds of the model *)

\* constructions in the source ownership specification
MaxSrcCalls == 3
\* constructions and resolutions in the dependency specification
MaxDepCalls == 4

----------------------------------------------------------------------------
(* Python str and os.path, on sequences of characters *)

\* None where a str is expected, and None where a list of str is expected
None == <<"None">>
NoneList == <<<<"None">>>>

startswith(s, p) ==
    /\ Len(s) >= Len(p)
    /\ SubSeq(s, 1, Len(p)) = p

endswith(s, p) ==
    /\ Len(s) >= Len(p)
    /\ SubSeq(s, Len(s) - Len(p) + 1, Len(s)) = p

\* sub in s
contains(s, sub) ==
    \E i \in 1..(Len(s) - Len(sub) + 1) : SubSeq(s, i, i + Len(sub) - 1) = sub

\* s.count(c) for a single character c
count(s, c) == Cardinality({i \in 1..Len(s) : s[i] = c})

\* s.find(c) for a single character c, 1-based; 0 when absent (Python: -1)
find(s, c) ==
    IF \E i \in 1..Len(s) : s[i] = c
    THEN CHOOSE i \in 1..Len(s) : s[i] = c /\ \A j \in 1..(i - 1) : s[j] # c
    ELSE 0

\* index of the last c in s; 0 when absent
rfind(s, c) ==
    IF \E i \in 1..Len(s) : s[i] = c
    THEN CHOOSE i \in 1..Len(s) : s[i] = c /\ \A j \in (i + 1)..Len(s) : s[j] # c
    ELSE 0

\* s.rsplit(c, 1) when c occurs in s: <<before the last c, after it>>
rsplit1(s, c) ==
    LET i == rfind(s, c)
    IN  <<SubSeq(s, 1, i - 1), SubSeq(s, i + 1, Len(s))>>

\* s.split(c): the list of the parts between the occurrences of c
RECURSIVE split(_, _)
split(s, c) ==
    LET i == find(s, c)
    IN  IF i = 0 THEN <<s>>
        ELSE <<SubSeq(s, 1, i - 1)>> \o split(SubSeq(s, i + 1, Len(s)), c)

\* c.join(parts)
RECURSIVE joinwith(_, _)
joinwith(parts, c) ==
    IF parts = <<>> THEN <<>>
    ELSE IF Len(parts) = 1 THEN parts[1]
    ELSE parts[1] \o <<c>> \o joinwith(Tail(parts), c)

Whitespace == {" "}

\* s.strip()
RECURSIVE lstrip(_)
lstrip(s) ==
    IF s # <<>> /\ s[1] \in Whitespace THEN lstrip(Tail(s)) ELSE s

RECURSIVE rstrip(_)
rstrip(s) ==
    IF s # <<>> /\ s[Len(s)] \in Whitespace THEN rstrip(SubSeq(s, 1, Len(s) - 1)) ELSE s

strip(s) == rstrip(lstrip(s))

\* os.path.join(a, b) of posixpath
path_join(a, b) ==
    IF startswith(b, <<"/">>) THEN b
    ELSE IF a = <<>> \/ endswith(a, <<"/">>) THEN a \o b
    ELSE a \o <<"/">> \o b

\* the component loop of posixpath.normpath
RECURSIVE normpath_comps(_, _, _)
normpath_comps(comps, new_comps, initial_slashes) ==
    IF comps = <<>> THEN new_comps
    ELSE
        LET comp == Head(comps)
            n == Len(new_comps)
        IN  IF comp = <<>> \/ comp = <<".">>
            THEN normpath_comps(Tail(comps), new_comps, initial_slashes)
            ELSE IF \/ comp # <<".", ".">>
                    \/ (initial_slashes = 0 /\ n = 0)
                    \/ (n > 0 /\ new_comps[n] = <<".", ".">>)
            THEN normpath_comps(Tail(comps), Append(new_comps, comp), initial_slashes)
            ELSE IF n > 0
            THEN normpath_comps(Tail(comps), SubSeq(new_comps, 1, n - 1), initial_slashes)
            ELSE normpath_comps(Tail(comps), new_comps, initial_slashes)

\* os.path.normpath(path) of posixpath
normpath(path) ==
    IF path = <<>> THEN <<".">>
    ELSE
        LET initial_slashes ==
                IF ~startswith(path, <<"/">>) THEN 0
                ELSE IF startswith(path, <<"/", "/">>) /\ ~startswith(path, <<"/", "/", "/">>)
                THEN 2
                ELSE 1
            joined == joinwith(normpath_comps(split(path, "/"), <<>>, initial_slashes), "/")
            full == [i \in 1..initial_slashes |-> "/"] \o joined
        IN  IF full = <<>> THEN <<".">> ELSE full

----------------------------------------------------------------------------
(* Target: keys, names, console messages *)

\* self.key = (current_source_path, name)
Key(path, name) == <<path, name>>

\* self.fullname = '%s:%s' % self.key
Fullname(key) == key[1] \o <<":">> \o key[2]

\* the visibility a target starts with, and keeps when declared None or ['PUBLIC']
PUBLIC == [public |-> TRUE, keys |-> <<>>]

\* _check_name: a name with a directory part is fatal
CheckNameFatal(name) == contains(name, <<"/">>)

\* _check_kwargs: any unrecognized option is fatal
CheckKwargsFatal(kwargs) == kwargs # {}

\* the first loop of _check_srcs: some path occurs twice in srcs
HasDups(srcs) == \E i, j \in 1..Len(srcs) : i < j /\ srcs[i] = srcs[j]

\* the path check of _check_srcs: '..' in s or s.startswith('/')
InvalidSrc(s) == contains(s, <<".", ".">>) \/ startswith(s, <<"/">>)

\* 'Source file %s belongs to {%s, %s}' % (s, target_existed[0], target[0])
DupMessage(s, target_existed, target) == <<s, target_existed[1], target[1]>>

\* m with m[k] = v
MapSet(m, k, v) == [x \in DOMAIN m \cup {k} |-> IF x = k THEN v ELSE m[x]]

----------------------------------------------------------------------------
(* Source Ownership Registry: Target._check_srcs *)

\* a bug that lets any later claimant take the entry over
ClaimAlwaysTransfers(target_existed, target) == "replace"

\* a bug that never transfers the entry
ClaimNeverTransfers(target_existed, target) ==
    IF target_existed[2] \/ target[2] THEN "keep" ELSE "conflict"

\* The branch taken for a path already claimed by a different target:
\* the entry is replaced when the existing claimant allows duplicates, kept
\* when only the new one does, and a conflict when neither does.
ClaimDecision(target_existed, target) ==
    IF target_existed[2] THEN "replace"
    ELSE IF target[2] THEN "keep"
    ELSE "conflict"

\* a bug that takes every policy value but 'error' for 'warning'
PolicyAlwaysWarns(act) == IF act = "error" THEN "fatal" ELSE "warning"

\* What a conflict does under duplicated_source_action
ConflictPolicy(act) ==
    IF act = "error" THEN "fatal"
    ELSE IF act = "warning" THEN "warning"
    ELSE "ignore"

\* The second loop of _check_srcs from source i on. The result holds the
\* registry, the warnings emitted, and whether (and why) the loop was fatal.
RECURSIVE CheckSrcsLoop(_, _, _, _, _, _, _)
CheckSrcsLoop(path, target, srcs, i, map, warns, act) ==
    IF i > Len(srcs) THEN [map |-> map, warnings |-> warns, fatal |-> "no"]
    ELSE
        LET s == srcs[i]
            src == normpath(path_join(path, s))
        IN  IF InvalidSrc(s)
            THEN [map |-> map, warnings |-> warns, fatal |-> "invalid_src"]
            ELSE IF src \notin DOMAIN map
            THEN CheckSrcsLoop(path, target, srcs, i + 1, MapSet(map, src, target), warns, act)
            ELSE
                LET target_existed == map[src]
                    decision == ClaimDecision(target_existed, target)
                    message == DupMessage(s, target_existed, target)
                IN  IF target_existed = target
                    THEN CheckSrcsLoop(path, target, srcs, i + 1, map, warns, act)
                    ELSE IF decision = "replace"
                    THEN CheckSrcsLoop(path, target, srcs, i + 1,
                                       MapSet(map, src, target), warns, act)
                    ELSE IF decision = "keep"
                    THEN CheckSrcsLoop(path, target, srcs, i + 1, map, warns, act)
                    ELSE IF ConflictPolicy(act) = "fatal"
                    THEN [map |-> map, warnings |-> warns, fatal |-> "conflict"]
                    ELSE IF ConflictPolicy(act) = "warning"
                    THEN CheckSrcsLoop(path, target, srcs, i + 1, map,
                                       Append(warns, message), act)
                    ELSE CheckSrcsLoop(path, target, srcs, i + 1, map, warns, act)

\* a bug that skips the check for repeated paths
CheckSrcsNoDupCheck(path, fullname, allow, srcs, map, act) ==
    CheckSrcsLoop(path, <<fullname, allow>>, srcs, 1, map, <<>>, act)

\* _check_srcs of a target with the given path, fullname and
\* _allow_duplicate_source() result
CheckSrcs(path, fullname, allow, srcs, map, act) ==
    IF HasDups(srcs)
    THEN [map |-> map, warnings |-> <<>>, fatal |-> "dup_srcs"]
    ELSE CheckSrcsLoop(path, <<fullname, allow>>, srcs, 1, map, <<>>, act)

----------------------------------------------------------------------------
(* Target Database and System Library *)

\* Python values that are a str, a list of str or None
Str(s) == [t |-> "str", v |-> s]
List(l) == [t |-> "list", v |-> l]
PyNone == [t |-> "none", v |-> <<>>]

\* the truth value of a str, a list or None
Truthy(x) == x.t # "none" /\ x.v # <<>>

\* self.data: the output file records 'targets' (a dict, kept as its items
\* in insertion order) and 'default_target'
NewData == [targets |-> <<>>, default_target |-> Str(<<>>)]

\* self.__build_rules = None; id tells the list objects it is bound to apart
NoRules == [none |-> TRUE, id |-> 0, list |-> <<>>]

\* self.__rule_hash = None, and the digest it becomes
NoHash == [none |-> TRUE, digest |-> <<>>]

\* a Target object, as far as the operations below read and write it.
\* ninja_rules is what the rule generation of its class does, and generated
\* counts the runs of it.
NewTarget(key, name, path, type, allow, srcs, deps, expanded_deps, visibility) ==
    [key |-> key, fullname |-> Fullname(key), name |-> name, path |-> path,
     type |-> type, allow |-> allow, srcs |-> srcs, deps |-> deps,
     expanded_deps |-> expanded_deps, visibility |-> visibility,
     data |-> NewData, build_rules |-> NoRules, rule_hash |-> NoHash,
     ninja_rules |-> <<>>, generated |-> 0]

\* blade.register_target(target): the database gets target under its key
RegisterTarget(db, key, idx) == MapSet(db, key, idx)

\* SystemLibrary(name): Target.__init__ with name[1:], no srcs, no deps,
\* visibility ['PUBLIC'] and no kwargs, then key = ('#', name), path = '#'.
\* With no srcs and no deps only _check_name can be fatal.
SystemLibraryInit(name_arg) ==
    LET name == Tail(name_arg)
        key == Key(<<"#">>, name)
    IN  [fatal |-> CheckNameFatal(name) \/ CheckKwargsFatal({}) \/ HasDups(<<>>),
         obj |-> NewTarget(key, name, <<"#">>, "system_library", FALSE,
                           <<>>, <<>>, <<>>, PUBLIC)]

\* lib = SystemLibrary(name); self.blade.register_target(lib)
RegisterSystemLibrary(lib, db, tgts) ==
    IF lib.fatal THEN [fatal |-> TRUE, db |-> db, targets |-> tgts]
    ELSE [fatal |-> FALSE,
          db |-> RegisterTarget(db, lib.obj.key, Len(tgts) + 1),
          targets |-> Append(tgts, lib.obj)]

\* a bug that registers the library without looking the key up
AddSystemLibraryNoLookup(key, name_arg, db, tgts) ==
    RegisterSystemLibrary(SystemLibraryInit(name_arg), db, tgts)

\* _add_system_library(key, name)
AddSystemLibrary(key, name_arg, db, tgts) ==
    IF key \in DOMAIN db THEN [fatal |-> FALSE, db |-> db, targets |-> tgts]
    ELSE RegisterSystemLibrary(SystemLibraryInit(name_arg), db, tgts)

----------------------------------------------------------------------------
(* Dependency resolver *)

\* the directory of a relative reference: os.path.normpath('%s/%s' % (self.path, path))
UnifyRelative(path, p) == normpath(path \o <<"/">> \o p)

\* the directory of a '//' reference: os.path.normpath(path)
UnifyAbsolute(p) == normpath(p)

\* a bug that resolves a reference without ':' to a whole directory
MissingColonAccepted(dep) == FALSE

\* the format error of _unify_dep: a '//' or relative reference without ':'
MissingColon(dep) == ~contains(dep, <<":">>)

\* the '#' branch of _unify_dep once _add_system_library has run
UnifySystem(dkey, a) ==
    [outcome |-> IF a.fatal THEN "fatal" ELSE "ok", dkey |-> dkey,
     db |-> a.db, targets |-> a.targets]

\* the relative branch of _unify_dep once dep is split at its last ':'
UnifyRelativeSplit(path, pl, db, tgts) ==
    IF contains(pl[1], <<".", ".">>)
    THEN [outcome |-> "raise", dkey |-> <<>>, db |-> db, targets |-> tgts]
    ELSE [outcome |-> "ok", dkey |-> Key(UnifyRelative(path, pl[1]), pl[2]),
          db |-> db, targets |-> tgts]

\* the '//' branch of _unify_dep once dep[2:] is split at its last ':'
UnifyAbsoluteSplit(pl, db, tgts) ==
    [outcome |-> "ok", dkey |-> Key(UnifyAbsolute(pl[1]), pl[2]),
     db |-> db, targets |-> tgts]

\* _unify_dep(dep) of a target in directory path. outcome is "ok", "raise"
\* (the format Exception) or "fatal" (the system library could not be built).
UnifyDep(path, dep, db, tgts) ==
    IF dep[1] = ":"
    THEN [outcome |-> "ok", dkey |-> Key(normpath(path), Tail(dep)),
          db |-> db, targets |-> tgts]
    ELSE IF startswith(dep, <<"/", "/">>)
    THEN IF MissingColon(dep)
         THEN [outcome |-> "raise", dkey |-> <<>>, db |-> db, targets |-> tgts]
         ELSE UnifyAbsoluteSplit(rsplit1(SubSeq(dep, 3, Len(dep)), ":"), db, tgts)
    ELSE IF startswith(dep, <<"#">>)
    THEN UnifySystem(Key(<<"#">>, Tail(dep)),
                     AddSystemLibrary(Key(<<"#">>, Tail(dep)), dep, db, tgts))
    ELSE IF MissingColon(dep)
    THEN [outcome |-> "raise", dkey |-> <<>>, db |-> db, targets |-> tgts]
    ELSE UnifyRelativeSplit(path, rsplit1(dep, ":"), db, tgts)

\* x in list
InList(x, list) == \E i \in 1..Len(list) : list[i] = x

\* if x not in list: list.append(x)
AppendIfAbsent(list, x) == IF InList(x, list) THEN list ELSE Append(list, x)

\* a bug that accepts any reference with at most one ':'
CheckFormatNoPrefix(t) == count(t, ":") > 1

\* _check_format(t): fatal unless t starts with ':', '#', '//' or './' and
\* holds at most one ':'
CheckFormatFatal(t) ==
    \/ ~(\/ startswith(t, <<":">>)
         \/ startswith(t, <<"#">>)
         \/ startswith(t, <<"/", "/">>)
         \/ startswith(t, <<".", "/">>))
    \/ count(t, ":") > 1

\* _check_deps(deps)
CheckDepsFatal(deps) == \E i \in 1..Len(deps) : CheckFormatFatal(deps[i])

\* _init_target_deps(deps) from declared dependency i on; st holds the
\* database, the objects, and self.deps and self.expanded_deps so far
RECURSIVE InitTargetDepsLoop(_, _, _, _)

\* one round of the loop, u being what _unify_dep(d) gave
InitTargetDepsStep(path, decl, i, st, u) ==
    IF u.outcome # "ok"
    THEN [st EXCEPT !.outcome = u.outcome, !.db = u.db, !.targets = u.targets]
    ELSE InitTargetDepsLoop(path, decl, i + 1,
            [outcome |-> "ok", db |-> u.db, targets |-> u.targets,
             expanded_deps |-> AppendIfAbsent(st.expanded_deps, u.dkey),
             deps |-> AppendIfAbsent(st.deps, u.dkey)])

InitTargetDepsLoop(path, decl, i, st) ==
    IF i > Len(decl) THEN st
    ELSE InitTargetDepsStep(path, decl, i, st, UnifyDep(path, decl[i], st.db, st.targets))

InitTargetDeps(path, decl, db, tgts) ==
    InitTargetDepsLoop(path, decl, 1,
        [outcome |-> "ok", db |-> db, targets |-> tgts,
         expanded_deps |-> <<>>, deps |-> <<>>])

\* the loop of _init_visibility from declared entry i on; st holds the
\* database, the objects and self.visibility so far
RECURSIVE InitVisibilityLoop(_, _, _, _)

\* one round of the loop, u being what _unify_dep(v) gave
InitVisibilityStep(path, decl, i, st, u) ==
    IF u.outcome # "ok"
    THEN [st EXCEPT !.outcome = u.outcome, !.db = u.db, !.targets = u.targets]
    ELSE InitVisibilityLoop(path, decl, i + 1,
            [outcome |-> "ok", db |-> u.db, targets |-> u.targets,
             keys |-> AppendIfAbsent(st.keys, u.dkey)])

InitVisibilityLoop(path, decl, i, st) ==
    IF i > Len(decl) THEN st
    ELSE IF CheckFormatFatal(decl[i]) THEN [st EXCEPT !.outcome = "fatal"]
    ELSE InitVisibilityStep(path, decl, i, st, UnifyDep(path, decl[i], st.db, st.targets))

\* a bug that leaves 'PUBLIC' whatever the list
VisibilityListPublic(st) ==
    [outcome |-> st.outcome, db |-> st.db, targets |-> st.targets, visibility |-> PUBLIC]

\* self.visibility = [] and what the loop made of it
VisibilityList(st) ==
    [outcome |-> st.outcome, db |-> st.db, targets |-> st.targets,
     visibility |-> [public |-> FALSE, keys |-> st.keys]]

\* _init_visibility(visibility): None and ['PUBLIC'] leave 'PUBLIC'
InitVisibility(path, visibility, db, tgts) ==
    IF visibility = NoneList \/ visibility = <<<<"P", "U", "B", "L", "I", "C">>>>
    THEN [outcome |-> "ok", db |-> db, targets |-> tgts, visibility |-> PUBLIC]
    ELSE VisibilityList(InitVisibilityLoop(path, visibility, 1,
            [outcome |-> "ok", db |-> db, targets |-> tgts, keys |-> <<>>]))

----------------------------------------------------------------------------
(* Location references and hard-coded libraries *)

WordChars == {"j", "s", "o"}

\* What LOCATION_RE can capture: group 1 is \S*:\S+, group 2 is absent or \s+\w*
LocationGroups(ref, tag) ==
    /\ \A i \in 1..Len(ref) : ref[i] \notin Whitespace
    /\ \E i \in 1..(Len(ref) - 1) : ref[i] = ":"
    /\ \/ tag = None
       \/ /\ tag # <<>>
          /\ tag[1] \in Whitespace
          /\ \A i \in 1..Len(lstrip(tag)) : lstrip(tag)[i] \in WordChars

\* a bug that returns the captured tag as matched
LocationTypeRaw(tag) == IF tag = None THEN <<>> ELSE tag

\* if not type: type = ''; type = type.strip()
LocationType(tag) == strip(IF tag = None THEN <<>> ELSE tag)

\* a bug that records a location reference in deps only
LocationExpandedUntouched(expanded_deps, key) == expanded_deps

\* if key not in self.expanded_deps: self.expanded_deps.append(key)
LocationExpanded(expanded_deps, key) == AppendIfAbsent(expanded_deps, key)

\* if key not in self.deps: self.deps.append(key)
LocationDeps(deps, key) == AppendIfAbsent(deps, key)

\* _add_location_reference_target(m) once key = self._unify_dep(key) gave u
LocationResolved(self, tag, u) ==
    IF u.outcome # "ok"
    THEN [outcome |-> u.outcome, result |-> <<>>, db |-> u.db, targets |-> u.targets,
          deps |-> self.deps, expanded_deps |-> self.expanded_deps]
    ELSE [outcome |-> "ok", result |-> <<u.dkey, LocationType(tag)>>,
          db |-> u.db, targets |-> u.targets,
          deps |-> LocationDeps(self.deps, u.dkey),
          expanded_deps |-> LocationExpanded(self.expanded_deps, u.dkey)]

\* _add_location_reference_target(m) on target self, m.groups() = (ref, tag)
AddLocationReferenceTarget(self, ref, tag, db, tgts) ==
    LocationResolved(self, tag, UnifyDep(self.path, ref, db, tgts))

\* path, name = target_string.split(':') and the tuple returned
HelperSplit(parts) ==
    IF Len(parts) # 2 THEN [outcome |-> "raise", dkey |-> <<>>]
    ELSE [outcome |-> "ok",
          dkey |-> Key(IF startswith(strip(parts[1]), <<"/", "/">>)
                       THEN SubSeq(strip(parts[1]), 3, Len(strip(parts[1])))
                       ELSE strip(parts[1]),
                       strip(parts[2]))]

\* _convert_string_to_target_helper(target_string): "fatal" for a string that
\* is empty or has neither '#' in front nor a ':', "raise" (ValueError of
\* the unpacking) for more than one ':'
ConvertStringToTargetHelper(target_string) ==
    IF target_string # <<>> /\ startswith(target_string, <<"#">>)
    THEN [outcome |-> "ok", dkey |-> Key(<<"#">>, Tail(target_string))]
    ELSE IF target_string # <<>> /\ find(target_string, ":") # 0
    THEN HelperSplit(split(target_string, ":"))
    ELSE [outcome |-> "fatal", dkey |-> <<>>]

\* _add_hardcode_library leaves self.deps alone
HardcodeDeps(deps, dkey) == deps

\* _add_hardcode_library(hardcode_dep_list) from entry i on; st holds the
\* database, the objects and self.deps, self.expanded_deps so far
RECURSIVE AddHardcodeLibraryLoop(_, _, _)

\* the round for dkey once _add_system_library, if called, gave a
HardcodeAppend(list, i, st, dkey, a) ==
    IF a.fatal THEN [st EXCEPT !.outcome = "fatal"]
    ELSE AddHardcodeLibraryLoop(list, i + 1,
            [outcome |-> "ok", result |-> <<>>, db |-> a.db, targets |-> a.targets,
             deps |-> HardcodeDeps(st.deps, dkey),
             expanded_deps |-> AppendIfAbsent(st.expanded_deps, dkey)])

\* one round of the loop, c being what _convert_string_to_target_helper gave
HardcodeStep(list, i, st, c) ==
    IF c.outcome # "ok" THEN [st EXCEPT !.outcome = c.outcome]
    ELSE HardcodeAppend(list, i, st, c.dkey,
            IF c.dkey[1] = <<"#">>
            THEN AddSystemLibrary(c.dkey, list[i], st.db, st.targets)
            ELSE [fatal |-> FALSE, db |-> st.db, targets |-> st.targets])

AddHardcodeLibraryLoop(list, i, st) ==
    IF i > Len(list) THEN st
    ELSE HardcodeStep(list, i, st, ConvertStringToTargetHelper(list[i]))

AddHardcodeLibrary(self, list, db, tgts) ==
    AddHardcodeLibraryLoop(list, 1,
        [outcome |-> "ok", result |-> <<>>, db |-> db, targets |-> tgts,
         deps |-> self.deps, expanded_deps |-> self.expanded_deps])

----------------------------------------------------------------------------
(* Target.__init__ *)

\* what a construction that ended at its name check leaves; result is, once
\* _init_target_deps ran, the <<deps, expanded_deps>> it gave the object
Unbuilt(map, db, tgts) ==
    [outcome |-> "fatal", reason |-> "name", map |-> map, db |-> db,
     targets |-> tgts, warnings |-> <<>>, result |-> <<>>]

\* the construction from _init_visibility on, vi being its result
InitFromVisibility(obj, st, td, vi) ==
    IF vi.outcome # "ok"
    THEN [st EXCEPT !.outcome = vi.outcome, !.reason = "visibility",
                    !.db = vi.db, !.targets = vi.targets,
                    !.result = <<td.deps, td.expanded_deps>>]
    ELSE [st EXCEPT !.outcome = "ok", !.reason = "none", !.db = vi.db,
            !.result = <<td.deps, td.expanded_deps>>,
            !.targets = Append(vi.targets,
                [obj EXCEPT !.deps = td.deps, !.expanded_deps = td.expanded_deps,
                            !.visibility = vi.visibility])]

\* the construction from _init_target_deps on, td being its result
InitFromDeps(obj, visibility, st, td) ==
    IF td.outcome # "ok"
    THEN [st EXCEPT !.outcome = td.outcome, !.reason = "dep_unify",
                    !.db = td.db, !.targets = td.targets,
                    !.result = <<td.deps, td.expanded_deps>>]
    ELSE InitFromVisibility(obj, st, td,
            InitVisibility(obj.path, visibility, td.db, td.targets))

\* the construction from _check_srcs on, cs being its result
InitFromSrcs(obj, deps, visibility, st, cs) ==
    IF cs.fatal # "no"
    THEN [st EXCEPT !.reason = cs.fatal, !.map = cs.map, !.warnings = cs.warnings]
    ELSE IF CheckDepsFatal(deps)
    THEN [st EXCEPT !.reason = "dep_format", !.map = cs.map, !.warnings = cs.warnings]
    ELSE InitFromDeps(obj, visibility,
            [st EXCEPT !.map = cs.map, !.warnings = cs.warnings],
            InitTargetDeps(obj.path, deps, st.db, st.targets))

\* The checks and initialisations of Target.__init__ in their order:
\* _check_name, _check_kwargs, _check_srcs, _check_deps, _init_target_deps,
\* _init_visibility. outcome is "ok", "fatal" or "raise"; reason names the
\* step that ended the construction. The registry, the database and the
\* objects are as the steps that ran left them.
TargetInit(path, name, type, allow, srcs, deps, visibility, kwargs, map, db, tgts, act) ==
    IF CheckNameFatal(name) THEN Unbuilt(map, db, tgts)
    ELSE IF CheckKwargsFatal(kwargs) THEN [Unbuilt(map, db, tgts) EXCEPT !.reason = "kwargs"]
    ELSE InitFromSrcs(
            NewTarget(Key(path, name), name, path, type, allow, srcs, <<>>, <<>>, PUBLIC),
            deps, visibility, Unbuilt(map, db, tgts),
            CheckSrcs(path, Fullname(Key(path, name)), allow, srcs, map, act))

----------------------------------------------------------------------------
(* State machine *)

NoCall == [op |-> "none", outcome |-> "ok", reason |-> "none", self |-> 0,
           args |-> <<>>, result |-> <<>>, warnings |-> <<>>]

Policies == {"error", "warning", "ignore"}

Init ==
    /\ src_target_map = <<>>
    /\ target_database = <<>>
    /\ targets = <<>>
    /\ action \in Policies
    /\ aborted = FALSE
    /\ calls = 0
    /\ last = NoCall
    /\ stack = <<>>

\* the state after a construction that gave r
Constructed(r, args) ==
    /\ src_target_map' = r.map
    /\ target_database' = r.db
    /\ targets' = r.targets
    /\ aborted' = (r.outcome = "fatal")
    /\ last' = [op |-> "construct", outcome |-> r.outcome, reason |-> r.reason,
                self |-> IF r.outcome = "ok" THEN Len(r.targets) ELSE 0,
                args |-> args, result |-> r.result, warnings |-> r.warnings]

\* A BUILD rule constructs a target in directory path. A fatal error ends
\* the process; a raised Exception leaves what the steps before it wrote.
Construct(path, name, type, allow, srcs, deps, visibility, kwargs) ==
    /\ ~aborted
    /\ Constructed(TargetInit(path, name, type, allow, srcs, deps, visibility, kwargs,
                              src_target_map, target_database, targets, action),
                   <<path, name, allow, srcs, deps, visibility>>)
    /\ calls' = calls + 1
    /\ UNCHANGED <<action, stack>>

\* the targets built by BUILD rules (system libraries run no resolver)
UserTargets == {i \in 1..Len(targets) : targets[i].type # "system_library"}

\* the targets whose rule has not registered them yet
Unregistered == {i \in UserTargets : \A k \in DOMAIN target_database : target_database[k] # i}

\* The rule that constructed targets[i] registers it in the database; a key
\* is unique there, so a second target under a registered key is fatal.
Register(i) ==
    /\ ~aborted
    /\ i \in Unregistered
    /\ IF targets[i].key \in DOMAIN target_database
       THEN /\ aborted' = TRUE
            /\ last' = [NoCall EXCEPT !.op = "register", !.self = i,
                                      !.outcome = "fatal", !.reason = "duplicate_key"]
            /\ UNCHANGED target_database
       ELSE /\ target_database' = RegisterTarget(target_database, targets[i].key, i)
            /\ last' = [NoCall EXCEPT !.op = "register", !.self = i]
            /\ UNCHANGED aborted
    /\ UNCHANGED <<src_target_map, targets, action, calls, stack>>

\* the state after a resolution by targets[i] that gave r
Resolved(i, r, op, reason, args) ==
    /\ target_database' = r.db
    /\ targets' = [r.targets EXCEPT ![i].deps = r.deps,
                                    ![i].expanded_deps = r.expanded_deps]
    /\ aborted' = (r.outcome = "fatal")
    /\ last' = [op |-> op, outcome |-> r.outcome,
                reason |-> IF r.outcome = "ok" THEN "none" ELSE reason,
                self |-> i, args |-> args, result |-> r.result, warnings |-> <<>>]

\* targets[i] resolves a match of LOCATION_RE in one of its attributes
LocationReference(i, ref, tag) ==
    /\ ~aborted
    /\ LocationGroups(ref, tag)
    /\ Resolved(i, AddLocationReferenceTarget(targets[i], ref, tag, target_database, targets),
                "location", "dep_unify", <<ref, tag>>)
    /\ calls' = calls + 1
    /\ UNCHANGED <<src_target_map, action, stack>>

\* targets[i] adds a list of hard-coded libraries
HardcodeLibrary(i, list) ==
    /\ ~aborted
    /\ Resolved(i, AddHardcodeLibrary(targets[i], list, target_database, targets),
                "hardcode", "helper", <<list>>)
    /\ calls' = calls + 1
    /\ UNCHANGED <<src_target_map, action, stack>>

----------------------------------------------------------------------------
(* Rule generation: get_rules, ninja_build and the output file records *)

\* blade_util.var_to_list(var): a list stays a list, None is [], a str is [str]
var_to_list(var) == IF var.t = "str" THEN <<var.v>> ELSE var.v

\* d[k] = v on the items of a dict
RECURSIVE DictSet(_, _, _)
DictSet(items, k, v) ==
    IF items = <<>> THEN <<<<k, v>>>>
    ELSE IF items[1][1] = k THEN <<<<k, v>>>> \o Tail(items)
    ELSE <<items[1]>> \o DictSet(Tail(items), k, v)

\* d.get(k, default) on the items of a dict
RECURSIVE DictGet(_, _, _)
DictGet(items, k, default) ==
    IF items = <<>> THEN default
    ELSE IF items[1][1] = k THEN items[1][2]
    ELSE DictGet(Tail(items), k, default)

\* a bug that lets every registration replace the default target
AddTargetFileResetsDefault(data, label, path) ==
    [targets |-> DictSet(data.targets, label, path), default_target |-> path]

\* _add_target_file(label, path)
AddTargetFile(data, label, path) ==
    [targets |-> DictSet(data.targets, label, path),
     default_target |-> IF ~Truthy(data.default_target) THEN path
                        ELSE data.default_target]

\* _add_default_target_file(label, path)
AddDefaultTargetFile(data, label, path) ==
    AddTargetFile([data EXCEPT !.default_target = path], label, path)

\* _write_rule(rule): self.__build_rules.append('%s\n' % rule)
WriteRule(list, rule) == Append(list, rule \o <<"\n">>)

\* a bug that marks the order-only inputs as implicit inputs
OrderOnlyMarkerImplicit == <<"|">>

\* the marker ninja_build puts before the order-only inputs
OrderOnlyMarker == <<"|", "|">>

\* outs of ninja_build
BuildOuts(outputs, implicit_outputs) ==
    var_to_list(outputs) \o
    (IF Truthy(implicit_outputs) THEN <<<<"|">>>> \o var_to_list(implicit_outputs)
     ELSE <<>>)

\* ins of ninja_build
BuildIns(inputs, implicit_deps, order_only_deps) ==
    (IF Truthy(inputs) THEN var_to_list(inputs) ELSE <<>>) \o
    (IF Truthy(implicit_deps) THEN <<<<"|">>>> \o var_to_list(implicit_deps) ELSE <<>>) \o
    (IF Truthy(order_only_deps) THEN <<OrderOnlyMarker>> \o var_to_list(order_only_deps)
     ELSE <<>>)

\* 'build %s: %s %s' % (' '.join(outs), rule, ' '.join(ins))
BuildLine(outs, rule, ins) ==
    <<"b", "u", "i", "l", "d", " ">> \o joinwith(outs, " ") \o <<":", " ">> \o
    rule \o <<" ">> \o joinwith(ins, " ")

\* '  %s = %s' % (name, v) if v else '  %s =' % name
VariableLine(name, v) ==
    IF v # <<>> THEN <<" ", " ">> \o name \o <<" ", "=", " ">> \o v
    ELSE <<" ", " ">> \o name \o <<" ", "=">>

\* the loop of ninja_build over the items of variables
RECURSIVE WriteVariables(_, _)
WriteVariables(list, items) ==
    IF items = <<>> THEN list
    ELSE WriteVariables(WriteRule(list, VariableLine(items[1][1], items[1][2])),
                        Tail(items))

\* ninja_build(rule, outputs, inputs, implicit_deps, order_only_deps,
\* variables, implicit_outputs) on the list self.__build_rules
NinjaBuild(list, b) ==
    WriteRule(
        WriteVariables(
            WriteRule(list, BuildLine(BuildOuts(b.outputs, b.implicit_outputs), b.rule,
                                      BuildIns(b.inputs, b.implicit_deps,
                                               b.order_only_deps))),
            b.variables),
        <<>>)

\* nested get_rules calls after which the interpreter raises RecursionError
MaxReentry == 3

\* the value a lookup reads from the records
\* _get_target_file: self.data['targets'].get(label, '') or the default target
ReadTargetFile(data, label) ==
    IF label # <<>> THEN DictGet(data.targets, label, Str(<<>>))
    ELSE data.default_target

\* the order of str on the characters of the paths
Ord(ch) == CHOOSE n \in 1..4 : <<"/", "p", "q", "r">>[n] = ch

\* a < b for str
RECURSIVE StrLess(_, _)
StrLess(s1, s2) ==
    IF s2 = <<>> THEN FALSE
    ELSE IF s1 = <<>> THEN TRUE
    ELSE IF s1[1] = s2[1] THEN StrLess(Tail(s1), Tail(s2))
    ELSE Ord(s1[1]) < Ord(s2[1])

\* sorted(results) for a set of str
RECURSIVE Sorted(_)
Sorted(S) ==
    IF S = {} THEN <<>>
    ELSE LET m == CHOOSE e \in S : \A o \in S : o = e \/ StrLess(e, o)
         IN  <<m>> \o Sorted(S \ {m})

\* results.update(v) if isinstance(v, list) else results.add(v)
PathsOf(v) == IF v.t = "list" THEN v.v ELSE <<v.v>>

\* _get_target_files after get_rules: every path of every record, sorted
ReadTargetFiles(data) ==
    Sorted(UNION {{PathsOf(data.targets[k][2])[n] :
                      n \in 1..Len(PathsOf(data.targets[k][2]))} :
                  k \in 1..Len(data.targets)})

\* the state of a call: the object, how the call ended, what it returns and
\* what the lookups made by ninja_rules returned
CallState(obj) == [obj |-> obj, outcome |-> "ok", ret |-> <<>>, reads |-> <<>>]

RECURSIVE NinjaRules(_, _, _)
RECURSIVE GetRules(_, _)
RECURSIVE GetTargetFile(_, _, _)
RECURSIVE GetTargetFiles(_, _)

\* what get_rules returns once the rules are there: self.__build_rules
ReturnRules(st) ==
    IF st.outcome = "ok" THEN [st EXCEPT !.ret = st.obj.build_rules] ELSE st

\* a call made by ninja_rules returned: step i of the script is done
Reentered(st, i, depth) ==
    IF st.outcome # "ok" THEN st
    ELSE NinjaRules([st EXCEPT !.reads = Append(@, st.ret)], i + 1, depth)

\* ninja_rules of the class of the object, from step i on. A step is a
\* ninja_build call, a registration of an output file, a call of get_rules,
\* _get_target_file or _get_target_files on the object itself, or a raise
\* (Target.ninja_rules raises NotImplementedError).
NinjaRules(st, i, depth) ==
    IF i > Len(st.obj.ninja_rules) THEN st
    ELSE IF st.obj.ninja_rules[i].op = "build"
    THEN NinjaRules([st EXCEPT !.obj.build_rules.list =
                                  NinjaBuild(@, st.obj.ninja_rules[i])], i + 1, depth)
    ELSE IF st.obj.ninja_rules[i].op = "add"
    THEN NinjaRules([st EXCEPT !.obj.data =
                                  AddTargetFile(@, st.obj.ninja_rules[i].label,
                                                st.obj.ninja_rules[i].path)], i + 1, depth)
    ELSE IF st.obj.ninja_rules[i].op = "add_default"
    THEN NinjaRules([st EXCEPT !.obj.data =
                                  AddDefaultTargetFile(@, st.obj.ninja_rules[i].label,
                                                       st.obj.ninja_rules[i].path)],
                    i + 1, depth)
    ELSE IF st.obj.ninja_rules[i].op = "get_rules"
    THEN Reentered(GetRules(st, depth + 1), i, depth)
    ELSE IF st.obj.ninja_rules[i].op = "get_file"
    THEN Reentered(GetTargetFile(st, st.obj.ninja_rules[i].label, depth + 1), i, depth)
    ELSE IF st.obj.ninja_rules[i].op = "get_files"
    THEN Reentered(GetTargetFiles(st, depth + 1), i, depth)
    ELSE [st EXCEPT !.outcome = "raise"]

\* a bug that generates the rules on every call
GetRulesNoCache(st, depth) ==
    IF depth > MaxReentry THEN [st EXCEPT !.outcome = "recursion_error"]
    ELSE ReturnRules(NinjaRules(
            [st EXCEPT !.obj.build_rules = [none |-> FALSE, id |-> @.id + 1, list |-> <<>>],
                       !.obj.generated = @ + 1], 1, depth))

\* a bug that binds self.__build_rules only when ninja_rules has returned
UnboundOnRaise(st) ==
    IF st.outcome = "raise" THEN [st EXCEPT !.obj.build_rules = NoRules] ELSE st

GetRulesBindsLate(st, depth) ==
    IF depth > MaxReentry THEN [st EXCEPT !.outcome = "recursion_error"]
    ELSE IF st.obj.build_rules.none
    THEN UnboundOnRaise(ReturnRules(NinjaRules(
            [st EXCEPT !.obj.build_rules = [none |-> FALSE, id |-> @.id + 1, list |-> <<>>],
                       !.obj.generated = @ + 1], 1, depth)))
    ELSE ReturnRules(st)

\* get_rules(): bind self.__build_rules to a new list and run ninja_rules if
\* it is None; return it
GetRules(st, depth) ==
    IF depth > MaxReentry THEN [st EXCEPT !.outcome = "recursion_error"]
    ELSE IF st.obj.build_rules.none
    THEN ReturnRules(NinjaRules(
            [st EXCEPT !.obj.build_rules = [none |-> FALSE, id |-> @.id + 1, list |-> <<>>],
                       !.obj.generated = @ + 1], 1, depth))
    ELSE ReturnRules(st)

\* the lookup of _get_target_file once get_rules has returned
ReadFile(st, label) ==
    IF st.outcome = "ok" THEN [st EXCEPT !.ret = ReadTargetFile(st.obj.data, label)] ELSE st

\* a bug that reads the records without generating the rules
GetTargetFileNoRules(st, label, depth) == ReadFile(st, label)

\* _get_target_file(label)
GetTargetFile(st, label, depth) == ReadFile(GetRules(st, depth), label)

\* the lookup of _get_target_files once get_rules has returned
ReadFiles(st) ==
    IF st.outcome = "ok" THEN [st EXCEPT !.ret = ReadTargetFiles(st.obj.data)] ELSE st

\* _get_target_files()
GetTargetFiles(st, depth) == ReadFiles(GetRules(st, depth))

\* the state after a call on targets[i] that gave r; before is what the
\* object was when the call was made
Called(i, r, op, args) ==
    /\ targets' = [targets EXCEPT ![i] = r.obj]
    /\ last' = [op |-> op, outcome |-> r.outcome, reason |-> "none", self |-> i,
                args |-> args, result |-> <<r.ret, r.reads>>, warnings |-> <<>>]
    /\ calls' = calls + 1
    /\ UNCHANGED <<src_target_map, target_database, action, aborted, stack>>

\* the driver calls get_rules on targets[i]
CallGetRules(i) ==
    /\ ~aborted
    /\ stack = <<>>
    /\ Called(i, GetRules(CallState(targets[i]), 0), "get_rules", <<>>)

\* the driver calls _get_target_file(label) on targets[i]
CallGetTargetFile(i, label) ==
    /\ ~aborted
    /\ stack = <<>>
    /\ Called(i, GetTargetFile(CallState(targets[i]), label, 0), "get_file", <<label>>)

\* the driver calls _get_target_files() on targets[i]
CallGetTargetFiles(i) ==
    /\ ~aborted
    /\ stack = <<>>
    /\ Called(i, GetTargetFiles(CallState(targets[i]), 0), "get_files", <<>>)

----------------------------------------------------------------------------
(* Rule generation specification: targets of classes with given ninja_rules *)

\* rule generations, lookups and rule hashes the driver asks for
MaxRuleCalls == 3

main == <<"m">>
extra == <<"e">>
out_p == Str(<<"p">>)
out_q == Str(<<"q", "/", "p">>)
out_list == List(<<<<"r">>, <<"p">>>>)

\* build o | p: cc i | h   with the variables v = 1 and w =
BuildAll ==
    [op |-> "build", rule |-> <<"c", "c">>, outputs |-> List(<<<<"o">>>>),
     inputs |-> List(<<<<"i">>>>), implicit_deps |-> Str(<<"h">>),
     order_only_deps |-> PyNone,
     variables |-> <<<<<<"v">>, <<"1">>>>, <<<<"w">>, <<>>>>>>,
     implicit_outputs |-> Str(<<"p">>)]
\* build o: ar || g
BuildOrderOnly ==
    [op |-> "build", rule |-> <<"a", "r">>, outputs |-> Str(<<"o">>),
     inputs |-> PyNone, implicit_deps |-> List(<<>>),
     order_only_deps |-> List(<<<<"g">>>>), variables |-> <<>>,
     implicit_outputs |-> PyNone]
\* build o p: ld i j | h || g k
BuildFull ==
    [op |-> "build", rule |-> <<"l", "d">>, outputs |-> List(<<<<"o">>, <<"p">>>>),
     inputs |-> List(<<<<"i">>, <<"j">>>>), implicit_deps |-> List(<<<<"h">>>>),
     order_only_deps |-> List(<<<<"g">>, <<"k">>>>),
     variables |-> <<<<<<"v">>, <<"2">>>>>>, implicit_outputs |-> List(<<>>)]
\* build o: ph   (no inputs: the line ends with the space after the rule)
BuildBare ==
    [op |-> "build", rule |-> <<"p", "h">>, outputs |-> Str(<<"o">>),
     inputs |-> PyNone, implicit_deps |-> PyNone, order_only_deps |-> PyNone,
     variables |-> <<>>, implicit_outputs |-> PyNone]

Add(label, path) == [op |-> "add", label |-> label, path |-> path]
AddDefault(label, path) == [op |-> "add_default", label |-> label, path |-> path]
ReGetRules == [op |-> "get_rules"]
ReGetFile(label) == [op |-> "get_file", label |-> label]
ReGetFiles == [op |-> "get_files"]
Raise == [op |-> "raise"]

\* what ninja_rules of the classes of the targets does
Scripts ==
    { <<>>,
      <<Raise>>,
      <<BuildAll, Add(main, out_p)>>,
      <<Add(main, out_q), ReGetFile(<<>>), AddDefault(extra, out_p), BuildOrderOnly>>,
      <<ReGetRules, BuildFull, ReGetRules, Add(extra, out_list), BuildOrderOnly>>,
      <<Add(main, out_p), ReGetFiles, Add(main, out_list), Add(extra, out_q), BuildBare>>,
      <<BuildFull, Add(main, out_q), Raise>> }

Labels == {<<>>, main, extra}

\* two targets of directory a, no sources, no deps, not yet registered
InitRules ==
    /\ src_target_map = <<>>
    /\ target_database = <<>>
    /\ action = "error"
    /\ aborted = FALSE
    /\ calls = 0
    /\ last = NoCall
    /\ stack = <<>>
    /\ \E s1, s2 \in Scripts :
          targets = << [NewTarget(Key(<<"a">>, <<"x">>), <<"x">>, <<"a">>, "gen_rule", FALSE,
                                  <<>>, <<>>, <<>>, PUBLIC) EXCEPT !.ninja_rules = s1],
                       [NewTarget(Key(<<"a">>, <<"y">>), <<"y">>, <<"a">>, "gen_rule", FALSE,
                                  <<>>, <<>>, <<>>, PUBLIC) EXCEPT !.ninja_rules = s2] >>

NextRules ==
    \/ \E i \in 1..Len(targets) :
          calls < MaxRuleCalls /\ CallGetRules(i)
    \/ \E i \in 1..Len(targets), label \in Labels :
          calls < MaxRuleCalls /\ CallGetTargetFile(i, label)
    \/ \E i \in 1..Len(targets) :
          calls < MaxRuleCalls /\ CallGetTargetFiles(i)

SpecRules == InitRules /\ [][NextRules]_vars

----------------------------------------------------------------------------
(* Source ownership specification: targets with sources and no deps *)

a == <<"a">>
a_b == <<"a", "/", "b">>
x == <<"x">>
y == <<"y">>
c_cc == <<"c">>
b_c_cc == <<"b", "/", "c">>

SrcTargets == {<<a, x>>, <<a, y>>, <<a_b, x>>}
SrcLists ==
    { <<c_cc>>, <<b_c_cc>>,
      <<c_cc, c_cc>>,                          \* a repeated path
      <<c_cc, <<"/", "c">>>>,                  \* an absolute path after a valid one
      <<b_c_cc, <<".", ".", "/", "c">>>> }     \* an escaping path after a valid one

NextSrc ==
    \E t \in SrcTargets, allow \in BOOLEAN, srcs \in SrcLists :
        /\ calls < MaxSrcCalls
        /\ Construct(t[1], t[2], "cc_library", allow, srcs, <<>>, NoneList, {})

SpecSrc == Init /\ [][NextSrc]_vars

----------------------------------------------------------------------------
(* Source ownership: claims *)

\* the step is a construction, and these are its arguments and its claimant
IsConstruct == last'.op = "construct"
NewPath == last'.args[1]
NewFullname == Fullname(Key(last'.args[1], last'.args[2]))
NewAllow == last'.args[3]
NewSrcs == last'.args[4]
NewClaim == <<NewFullname, NewAllow>>
NewSrcPath(i) == normpath(path_join(NewPath, NewSrcs[i]))

\* the sources of the construction that were claimed by another target before it
Contested == {i \in 1..Len(NewSrcs) :
                /\ NewSrcPath(i) \in DOMAIN src_target_map
                /\ src_target_map[NewSrcPath(i)] # NewClaim}

\* the contested sources whose two claimants both disallow duplicate sources
Conflicts == {i \in Contested : ~src_target_map[NewSrcPath(i)][2] /\ ~NewAllow}

\* the sources of the construction that are absolute or escape the directory
Invalid == {i \in 1..Len(NewSrcs) : InvalidSrc(NewSrcs[i])}

Least(S) == CHOOSE i \in S : \A j \in S : i <= j

\* C1: an entry of the Source Ownership Registry whose owner disallows
\* duplicate sources is never replaced or removed by a later construction,
\* whether or not the later target allows duplicates.
C1_DisallowingOwnerKept ==
    [][\A p \in DOMAIN src_target_map :
          ~src_target_map[p][2] =>
              /\ p \in DOMAIN src_target_map'
              /\ src_target_map'[p] = src_target_map[p]]_vars

\* a completed construction declared a path that another, duplicate-disallowing
\* target owns, and that target still owns it
C1_Witness ==
    /\ last.op = "construct"
    /\ last.outcome = "ok"
    /\ calls = 3
    /\ \E i \in 1..Len(last.args[4]) :
          LET p == normpath(path_join(last.args[1], last.args[4][i]))
          IN  /\ p \in DOMAIN src_target_map
              /\ ~src_target_map[p][2]
              /\ src_target_map[p][1] # Fullname(Key(last.args[1], last.args[2]))

\* C2 as stated: for a path already claimed by a different claimant, the
\* claim is kept if the existing claimant disallows duplicates, else
\* transferred if the new target disallows them, else left unchanged.
C2_Original ==
    [][(IsConstruct /\ last'.outcome = "ok") =>
          \A i \in Contested :
              src_target_map'[NewSrcPath(i)] =
                  IF ~src_target_map[NewSrcPath(i)][2] THEN src_target_map[NewSrcPath(i)]
                  ELSE IF ~NewAllow THEN NewClaim
                  ELSE src_target_map[NewSrcPath(i)]]_vars

\* C2 amended: for a path already claimed by a different claimant, the claim
\* is kept if the existing claimant disallows duplicates, and otherwise
\* transferred to the new target, whether or not the new target allows
\* duplicates.
C2_TransferUnlessDisallowing ==
    [][(IsConstruct /\ last'.outcome = "ok") =>
          \A i \in Contested :
              src_target_map'[NewSrcPath(i)] =
                  IF ~src_target_map[NewSrcPath(i)][2] THEN src_target_map[NewSrcPath(i)]
                  ELSE NewClaim]_vars

\* a completed construction by a duplicate-allowing target owns a path that
\* an earlier target claimed first
C2_Witness ==
    /\ last.op = "construct"
    /\ last.outcome = "ok"
    /\ calls >= 2
    /\ last.args[3]
    /\ \E i \in 1..Len(last.args[4]), j \in 1..(Len(targets) - 1) :
          LET p == normpath(path_join(last.args[1], last.args[4][i]))
          IN  /\ src_target_map[p] = <<Fullname(Key(last.args[1], last.args[2])), TRUE>>
              /\ targets[j].fullname # targets[Len(targets)].fullname
              /\ targets[j].allow
              /\ \E k \in 1..Len(targets[j].srcs) :
                    normpath(path_join(targets[j].path, targets[j].srcs[k])) = p

\* what the policy makes of the conflict at source k of the construction
C3_Message(k) == <<NewSrcs[k], src_target_map[NewSrcPath(k)][1], NewFullname>>

C3_Outcome(k) ==
    /\ action = "error" =>
          /\ last'.outcome = "fatal"
          /\ last'.reason = "conflict"
          /\ aborted'
    /\ action = "warning" =>
          /\ last'.reason # "conflict"
          /\ InList(C3_Message(k), last'.warnings)
          /\ src_target_map'[NewSrcPath(k)] = src_target_map[NewSrcPath(k)]
    /\ action \notin {"error", "warning"} =>
          /\ last'.reason # "conflict"
          /\ last'.warnings = <<>>
          /\ src_target_map'[NewSrcPath(k)] = src_target_map[NewSrcPath(k)]

\* C3: when the construction reaches a source that two different
\* duplicate-disallowing targets declare (no invalid path is listed before it), 'error' is fatal, 'warning' emits a warning naming the
\* source and both owners and keeps the first owner, any other policy emits
\* nothing and keeps the first owner; when no contested source has two
\* disallowing claimants there is no fatal conflict under any policy.
C3_ConflictPolicy ==
    [][(IsConstruct /\ last'.reason \notin {"name", "kwargs", "dup_srcs"}) =>
          /\ \A k \in Conflicts : (\A j \in Invalid : k < j) => C3_Outcome(k)
          /\ Conflicts = {} => (last'.reason # "conflict" /\ last'.warnings = <<>>)]_vars

\* under 'warning' a construction completed after warning about a source
\* that an earlier duplicate-disallowing target keeps
C3_Witness ==
    /\ action = "warning"
    /\ last.op = "construct"
    /\ last.outcome = "ok"
    /\ ~last.args[3]
    /\ last.warnings # <<>>
    /\ \E i \in 1..Len(last.args[4]) :
          LET p == normpath(path_join(last.args[1], last.args[4][i]))
          IN  /\ p \in DOMAIN src_target_map
              /\ src_target_map[p] = <<last.warnings[1][2], FALSE>>
              /\ last.warnings[1][3] = Fullname(Key(last.args[1], last.args[2]))

\* C4 as stated: a repeated, absolute or escaping source path makes the
\* construction fatal, and at the fatal error the registry is what it was
\* before the construction started.
C4_Original ==
    [][(IsConstruct /\ last'.reason \notin {"name", "kwargs"}
            /\ (HasDups(NewSrcs) \/ Invalid # {})) =>
          /\ last'.outcome = "fatal"
          /\ src_target_map' = src_target_map]_vars

\* C4 amended: a repeated, absolute or escaping source path makes the
\* construction fatal. A repeated path is rejected before any source is
\* claimed: the registry is unchanged. An absolute or escaping path is
\* rejected when the loop reaches it: the registry is unchanged for every
\* path but those of the sources listed before the first invalid one, which
\* have been processed as in a successful construction.
C4_RejectedWhenReached ==
    [][(IsConstruct /\ last'.reason \notin {"name", "kwargs"}
            /\ (HasDups(NewSrcs) \/ Invalid # {})) =>
          /\ last'.outcome = "fatal"
          /\ last'.reason \in {"dup_srcs", "invalid_src", "conflict"}
          /\ HasDups(NewSrcs) => (last'.reason = "dup_srcs" /\ src_target_map' = src_target_map)
          /\ last'.reason = "invalid_src" =>
                LET before == {NewSrcPath(j) : j \in 1..(Least(Invalid) - 1)}
                IN  /\ DOMAIN src_target_map' = DOMAIN src_target_map \cup before
                    /\ \A p \in DOMAIN src_target_map \ before :
                          src_target_map'[p] = src_target_map[p]
                    /\ \A p \in before :
                          src_target_map'[p] =
                              IF p \in DOMAIN src_target_map /\ ~src_target_map[p][2]
                              THEN src_target_map[p] ELSE NewClaim]_vars

\* the first construction of the run was fatal at an invalid source path and
\* the registry holds a claim of the target that was not built
C4_Witness ==
    /\ calls = 1
    /\ last.outcome = "fatal"
    /\ last.reason = "invalid_src"
    /\ \E p \in DOMAIN src_target_map :
          src_target_map[p] = <<Fullname(Key(last.args[1], last.args[2])), last.args[3]>>

----------------------------------------------------------------------------
(* Dependency specification: targets without sources that declare
   dependencies, then resolve location references and hard-coded libraries *)

z == <<"z">>
SameDir == <<":", "y">>                                      \* :y
FromRoot == <<"/", "/", "a", ":", "y">>                      \* //a:y
DotRelative == <<".", "/", "b", ":", "y">>                   \* ./b:y
Relative == <<"b", ":", "y">>                                \* b:y
DoubleSlash == <<"/", "/", "a", "/", "/", "b", ":", "y">>    \* //a//b:y
SystemLib == <<"#", "p">>                                    \* #p
SystemDir == <<"#", "p", "/", "q">>                          \* #p/q
RootNoColon == <<"/", "/", "a">>                             \* //a
DotNoColon == <<".", "/", "b">>                              \* ./b
DotEscaping == <<".", "/", ".", ".", "/", "b", ":", "y">>    \* ./../b:y
Escaping == <<".", ".", "/", "b", ":", "y">>                 \* ../b:y
NoMarker == <<"z", "z">>                                     \* zz
SystemColon == <<"#", "p", ":", "q">>                        \* #p:q

DepTargets == {<<a, x>>, <<a, z>>}
DepLists ==
    { <<SameDir, FromRoot>>, <<DotRelative>>, <<DotRelative, DoubleSlash>>,
      <<SystemLib>>, <<SystemLib, DotEscaping>>, <<Relative>>, <<SystemDir>>,
      <<RootNoColon>>, <<DotNoColon>>, <<SameDir, DotEscaping>> }
LocationMatches ==
    { <<FromRoot, None>>, <<Relative, <<" ", "j">>>>, <<Relative, <<" ">>>>,
      <<Escaping, None>>, <<SystemColon, None>> }
HardcodeLists ==
    { <<SystemLib>>, <<DoubleSlash, SystemLib>>, <<SystemDir>>, <<NoMarker>> }

InitDeps == Init /\ action = "error"

NextDeps ==
    \/ \E t \in DepTargets, deps \in DepLists :
          /\ calls < MaxDepCalls
          /\ Unregistered = {}
          /\ Construct(t[1], t[2], "cc_library", FALSE, <<>>, deps, NoneList, {})
    \/ \E i \in Unregistered : Register(i)
    \/ \E i \in UserTargets, m \in LocationMatches :
          /\ calls < MaxDepCalls
          /\ Unregistered = {}
          /\ LocationReference(i, m[1], m[2])
    \/ \E i \in UserTargets, list \in HardcodeLists :
          /\ calls < MaxDepCalls
          /\ Unregistered = {}
          /\ HardcodeLibrary(i, list)

SpecDeps == InitDeps /\ [][NextDeps]_vars

----------------------------------------------------------------------------
(* Dependency resolver: claims *)

NewDeps == last'.args[5]
NoDupKeys(list) == \A j, k \in 1..Len(list) : j < k => list[j] # list[k]

\* the key of a target with its directory normalized
Canon(key) == <<normpath(key[1]), key[2]>>
NoSameTarget(list) == \A j, k \in 1..Len(list) : j < k => Canon(list[j]) # Canon(list[k])

\* C5: every key in deps of a target is also in its expanded_deps, after any
\* sequence of constructions, location references and hard-coded library
\* additions; a hard-coded library addition leaves deps as it was.
C5_DepsWithinExpanded ==
    [][/\ \A i \in 1..Len(targets') :
             \A k \in 1..Len(targets'[i].deps) :
                InList(targets'[i].deps[k], targets'[i].expanded_deps)
       /\ last'.op = "hardcode" =>
             \A i \in 1..Len(targets) : targets'[i].deps = targets[i].deps]_vars

\* a hard-coded library was added to a target that has declared dependencies:
\* expanded_deps holds a key that deps does not
C5_Witness ==
    /\ last.op = "hardcode"
    /\ last.outcome = "ok"
    /\ targets[last.self].deps # <<>>
    /\ \E k \in 1..Len(targets[last.self].expanded_deps) :
          ~InList(targets[last.self].expanded_deps[k], targets[last.self].deps)

\* C6: neither deps nor expanded_deps of a target holds the same target
\* twice, also when the second reference (a declared dependency, a location
\* reference or a hard-coded library) spells the target differently.
C6_Original ==
    \A i \in 1..Len(targets) :
        /\ NoSameTarget(targets[i].deps)
        /\ NoSameTarget(targets[i].expanded_deps)

\* C6, the part that holds: neither list holds the same key twice, and every
\* key in deps has a normalized directory, so that declared dependencies and
\* location references spelling one target differently give one key. A
\* hard-coded library is keyed by its directory as written.
C6_NoDuplicateKeys ==
    \A i \in 1..Len(targets) :
        /\ NoDupKeys(targets[i].deps)
        /\ NoDupKeys(targets[i].expanded_deps)
        /\ \A k \in 1..Len(targets[i].deps) : Canon(targets[i].deps[k]) = targets[i].deps[k]

\* a target of directory a that declared './b:y' added the hard-coded
\* library '//a//b:y': its expanded_deps holds (a/b, y) and (a//b, y)
C6_Witness ==
    /\ last.op = "hardcode"
    /\ last.outcome = "ok"
    /\ InList(DoubleSlash, last.args[1])
    /\ targets[last.self].path = a
    /\ InList(Key(a_b, y), targets[last.self].expanded_deps)
    /\ InList(Key(<<"a", "/", "/", "b">>, y), targets[last.self].expanded_deps)

\* a reference of the form path:name with no leading ':', '//' or '#' and
\* no '..' in path
RelativeForm(d) ==
    /\ ~startswith(d, <<":">>)
    /\ ~startswith(d, <<"/", "/">>)
    /\ ~startswith(d, <<"#">>)
    /\ count(d, ":") = 1
    /\ ~contains(rsplit1(d, ":")[1], <<".", ".">>)

\* (normalize(currentDir/path), name) for a relative reference d
RelativeKey(dir, d) ==
    <<normpath(dir \o <<"/">> \o rsplit1(d, ":")[1]), rsplit1(d, ":")[2]>>

AllRelative(list) == list # <<>> /\ \A k \in 1..Len(list) : RelativeForm(list[k])

\* C7 as stated: a declared dependency of the relative form is accepted at
\* construction and its key (normalize(currentDir/path), name) is in deps
\* and expanded_deps.
C7_Original ==
    [][(IsConstruct /\ AllRelative(NewDeps)) =>
          /\ last'.outcome = "ok"
          /\ \A k \in 1..Len(NewDeps) :
                /\ InList(RelativeKey(NewPath, NewDeps[k]), targets'[last'.self].deps)
                /\ InList(RelativeKey(NewPath, NewDeps[k]),
                          targets'[last'.self].expanded_deps)]_vars

\* C7 amended: a declared dependency of the relative form is accepted at
\* construction only if it starts with './'; its key
\* (normalize(currentDir/path), name) is then in deps and expanded_deps.
\* Without './' the construction is fatal at the format check and no target
\* is built, while a location reference resolves the same reference, with
\* or without './', to that key.
C7_RelativeNeedsDotSlash ==
    [][/\ (IsConstruct /\ AllRelative(NewDeps)) =>
             IF \A k \in 1..Len(NewDeps) : startswith(NewDeps[k], <<".", "/">>)
             THEN /\ last'.outcome = "ok"
                  /\ \A k \in 1..Len(NewDeps) :
                        /\ InList(RelativeKey(NewPath, NewDeps[k]),
                                  targets'[last'.self].deps)
                        /\ InList(RelativeKey(NewPath, NewDeps[k]),
                                  targets'[last'.self].expanded_deps)
             ELSE /\ last'.outcome = "fatal"
                  /\ last'.reason = "dep_format"
                  /\ targets' = targets
                  /\ target_database' = target_database
       /\ (last'.op = "location" /\ RelativeForm(last'.args[1])) =>
             /\ last'.outcome = "ok"
             /\ last'.result[1] = RelativeKey(targets[last'.self].path, last'.args[1])]_vars

\* a target in directory a that declared './b:y' was built with the key (a/b, y)
C7_Witness ==
    /\ last.op = "construct"
    /\ last.outcome = "ok"
    /\ last.args[1] = a
    /\ last.args[5] = <<DotRelative>>
    /\ targets[last.self].deps = <<Key(a_b, y)>>
    /\ targets[last.self].expanded_deps = <<Key(a_b, y)>>

\* the captured tag without its whitespace
RECURSIVE NoSpaces(_)
NoSpaces(s) ==
    IF s = <<>> THEN <<>>
    ELSE IF s[1] = " " THEN NoSpaces(Tail(s))
    ELSE <<s[1]>> \o NoSpaces(Tail(s))

\* C8: a resolved location reference returns (key, tag), tag being the
\* captured tag without whitespace or '' when none was written, and leaves
\* the key in deps and expanded_deps of the calling target: appended at the
\* end where it was absent, nothing appended where it was present.
C8_LocationReference ==
    [][(last'.op = "location" /\ last'.outcome = "ok") =>
          LET i == last'.self
              key == last'.result[1]
          IN  /\ last'.result[2] = IF last'.args[2] = None THEN <<>>
                                   ELSE NoSpaces(last'.args[2])
              /\ targets'[i].deps =
                    IF InList(key, targets[i].deps) THEN targets[i].deps
                    ELSE targets[i].deps \o <<key>>
              /\ targets'[i].expanded_deps =
                    IF InList(key, targets[i].expanded_deps) THEN targets[i].expanded_deps
                    ELSE targets[i].expanded_deps \o <<key>>
              /\ \A j \in 1..Len(targets) : j # i => targets'[j] = targets[j]]_vars

\* 'b:y' with tag ' j' was resolved by a target of directory a that had not
\* declared it: (a/b, y) is the last of its deps and the tag returned is 'j'
C8_Witness ==
    /\ last.op = "location"
    /\ last.outcome = "ok"
    /\ last.args = <<Relative, <<" ", "j">>>>
    /\ last.result = <<Key(a_b, y), <<"j">>>>
    /\ Len(targets[last.self].deps) >= 2
    /\ targets[last.self].deps[Len(targets[last.self].deps)] = Key(a_b, y)
    /\ targets[last.self].expanded_deps[Len(targets[last.self].expanded_deps)] = Key(a_b, y)

\* the references a step resolves, in their order
StepRefs ==
    IF last'.op = "construct" THEN NewDeps
    ELSE IF last'.op = "hardcode" THEN last'.args[1]
    ELSE IF last'.op = "location" THEN <<last'.args[1]>>
    ELSE <<>>

SysRef(d) == startswith(d, <<"#">>)
SysKey(d) == <<<<"#">>, Tail(d)>>
AllSystem(list) == list # <<>> /\ \A k \in 1..Len(list) : SysRef(list[k])

\* the object the database holds under key is a System Library of that key
\* with no sources, no deps and PUBLIC visibility
IsSystemLibrary(db, tgts, key) ==
    /\ key \in DOMAIN db
    /\ tgts[db[key]].type = "system_library"
    /\ tgts[db[key]].key = key
    /\ tgts[db[key]].srcs = <<>>
    /\ tgts[db[key]].deps = <<>>
    /\ tgts[db[key]].visibility = PUBLIC

\* no step removes or replaces a database entry, and no two System Library
\* objects were made for one key
DatabaseKept ==
    /\ \A key \in DOMAIN target_database :
          /\ key \in DOMAIN target_database'
          /\ target_database'[key] = target_database[key]
          /\ targets'[target_database[key]].key = key
    /\ \A i, j \in 1..Len(targets') :
          (/\ i < j
           /\ targets'[i].type = "system_library"
           /\ targets'[j].type = "system_library") => targets'[i].key # targets'[j].key

\* the System Library objects a step made are one for each new key among refs
NewLibraries(refs) ==
    /\ \A i \in (Len(targets) + 1)..Len(targets') :
          targets'[i].type = "system_library" =>
             /\ targets'[i].key \notin DOMAIN target_database
             /\ target_database'[targets'[i].key] = i
             /\ \E k \in 1..Len(refs) : SysRef(refs[k]) /\ SysKey(refs[k]) = targets'[i].key
    /\ DOMAIN target_database' \ DOMAIN target_database =
          {targets'[i].key : i \in {j \in (Len(targets) + 1)..Len(targets') :
                                       targets'[j].type = "system_library"}}

\* C9 as stated: resolving '#name' yields the key ('#', name), which the
\* database then holds with a System Library (no sources, no deps, PUBLIC)
\* registered by this resolution if the key was absent; no entry is removed
\* or replaced and one library is registered per name.
C9_Original ==
    [][(last'.op \in {"construct", "hardcode", "location"}) =>
          /\ DatabaseKept
          /\ NewLibraries(StepRefs)
          /\ AllSystem(StepRefs) =>
                /\ last'.outcome = "ok"
                /\ \A k \in 1..Len(StepRefs) :
                      /\ IsSystemLibrary(target_database', targets', SysKey(StepRefs[k]))
                      /\ InList(SysKey(StepRefs[k]), targets'[last'.self].expanded_deps)]_vars

\* C9 amended: as stated where name holds no '/'. Where it holds one, the
\* System Library cannot be built: the resolution is fatal and registers
\* nothing under ('#', name).
C9_SystemLibraryRegistration ==
    [][(last'.op \in {"construct", "hardcode", "location"}) =>
          /\ DatabaseKept
          /\ NewLibraries(StepRefs)
          /\ AllSystem(StepRefs) =>
                IF \A k \in 1..Len(StepRefs) : ~contains(Tail(StepRefs[k]), <<"/">>)
                THEN /\ last'.outcome = "ok"
                     /\ \A k \in 1..Len(StepRefs) :
                           /\ IsSystemLibrary(target_database', targets',
                                              SysKey(StepRefs[k]))
                           /\ InList(SysKey(StepRefs[k]),
                                     targets'[last'.self].expanded_deps)
                ELSE /\ last'.outcome = "fatal"
                     /\ \A k \in 1..Len(StepRefs) :
                           contains(Tail(StepRefs[k]), <<"/">>) =>
                              SysKey(StepRefs[k]) \notin DOMAIN target_database']_vars

\* two targets resolved '#p': the database holds one System Library under
\* ('#', p), made by the first resolution
C9_Witness ==
    /\ last.op \in {"construct", "hardcode"}
    /\ last.outcome = "ok"
    /\ InList(SystemLib, IF last.op = "construct" THEN last.args[5] ELSE last.args[1])
    /\ IsSystemLibrary(target_database, targets, SysKey(SystemLib))
    /\ target_database[SysKey(SystemLib)] < last.self
    /\ \E i \in UserTargets :
          /\ targets[i].key # targets[last.self].key
          /\ InList(SysKey(SystemLib), targets[i].expanded_deps)
          /\ InList(SysKey(SystemLib), targets[last.self].expanded_deps)

\* a non-system reference without ':', or a relative one with '..' in its path
FormatError(d) ==
    /\ ~SysRef(d)
    /\ \/ ~contains(d, <<":">>)
       \/ /\ ~startswith(d, <<"/", "/">>)
          /\ ~startswith(d, <<":">>)
          /\ contains(rsplit1(d, ":")[1], <<".", ".">>)

\* a declared dependency that passes the format check of the construction
Marked(d) ==
    /\ \/ startswith(d, <<":">>)
       \/ startswith(d, <<"#">>)
       \/ startswith(d, <<"/", "/">>)
       \/ startswith(d, <<".", "/">>)
    /\ count(d, ":") <= 1

\* the construction resolves list[k], having resolved what is before it
ReachesFormatError(list, k) ==
    /\ \A j \in 1..Len(list) : Marked(list[j])
    /\ FormatError(list[k])
    /\ \A j \in 1..(k - 1) :
          /\ ~FormatError(list[j])
          /\ ~(SysRef(list[j]) /\ contains(Tail(list[j]), <<"/">>))

\* C10: resolving a non-system reference without ':' or a relative reference
\* with '..' in its path raises the format error. The failed resolution
\* appends nothing to deps or expanded_deps and leaves the database as it
\* was: a location reference changes nothing, and a construction holds only
\* what the references before the failed one gave.
C10_FormatErrorLeavesNothing ==
    [][/\ (last'.op = "location" /\ FormatError(last'.args[1])) =>
             /\ last'.outcome = "raise"
             /\ targets' = targets
             /\ target_database' = target_database
       /\ IsConstruct =>
             \A k \in 1..Len(NewDeps) :
                ReachesFormatError(NewDeps, k) =>
                   /\ last'.outcome = "raise"
                   /\ last'.reason = "dep_unify"
                   /\ Len(last'.result[1]) <= k - 1
                   /\ Len(last'.result[2]) <= k - 1
                   /\ SubSeq(targets', 1, Len(targets)) = targets
                   /\ \A i \in (Len(targets) + 1)..Len(targets') :
                         targets'[i].type = "system_library"
                   /\ \A key \in DOMAIN target_database' :
                         \/ /\ key \in DOMAIN target_database
                            /\ target_database'[key] = target_database[key]
                         \/ \E j \in 1..(k - 1) :
                               SysRef(NewDeps[j]) /\ key = SysKey(NewDeps[j])]_vars

\* the construction of a target that declared ':y' and './../b:y' raised
\* the format error at the second reference, holding the key of the first
C10_Witness ==
    /\ last.op = "construct"
    /\ last.outcome = "raise"
    /\ last.args[5] = <<SameDir, DotEscaping>>
    /\ last.result = <<<<Key(a, y)>>, <<Key(a, y)>>>>

----------------------------------------------------------------------------
(* Rule hash: rule_hash and its recursion over deps *)

\* frames after which the interpreter raises RecursionError
MaxStack == 5

\* blade_util.md5sum(s): a digest that tells different strings apart
md5sum(s) == [md5 |-> s]

\* str(sorted(factors.items())) for factors = type, name, srcs, deps updated
\* with _rule_hash_factors(), which is self.data: the items by their keys
FactorsStr(obj, deps) ==
    << <<"default_target", obj.data.default_target>>,
       <<"deps", deps>>,
       <<"generated_hdrs", <<>>>>,
       <<"name", obj.name>>,
       <<"srcs", obj.srcs>>,
       <<"targets", obj.data.targets>>,
       <<"test_timeout", "global_config.test_timeout">>,
       <<"type", obj.type>> >>

\* a bug that computes the digest although one is stored
HashAlwaysMissing(obj) == TRUE

\* if self.__rule_hash is None
HashMissing(obj) == obj.rule_hash.none

\* a bug that hashes the expanded deps
HashDepsExpanded(obj) == obj.expanded_deps

\* for dkey in self.deps
HashDeps(obj) == obj.deps

\* the frame of a rule_hash call on targets[i] that found no digest
Frame(i) == [t |-> i, k |-> 1, deps |-> <<>>]

\* the top frame got the digest of its dep: deps.append(dep.rule_hash())
Appended(frames, digest) ==
    [frames EXCEPT ![Len(frames)].deps = Append(@, digest), ![Len(frames)].k = @ + 1]

\* a rule_hash call of the driver on targets[i] returned digest
Returned(i, digest) ==
    last' = [op |-> "rule_hash", outcome |-> "ok", reason |-> "none", self |-> i,
             args |-> <<>>, result |-> <<digest, <<>>>>, warnings |-> <<>>]

\* a rule_hash call of the driver on targets[i] ended by an exception
Raised(i, reason) ==
    last' = [op |-> "rule_hash", outcome |-> "raise", reason |-> reason, self |-> i,
             args |-> <<>>, result |-> <<>>, warnings |-> <<>>]

\* the driver calls rule_hash on targets[i]: a stored digest is returned,
\* else the call starts to collect the digests of its deps
CallRuleHash(i) ==
    /\ ~aborted
    /\ stack = <<>>
    /\ IF HashMissing(targets[i])
       THEN /\ stack' = <<Frame(i)>>
            /\ last' = [NoCall EXCEPT !.op = "rule_hash_called", !.self = i]
       ELSE /\ stack' = <<>>
            /\ Returned(i, targets[i].rule_hash.digest)
    /\ calls' = calls + 1
    /\ UNCHANGED <<src_target_map, target_database, targets, action, aborted>>

\* the loop of the top frame reaches the dep with key dkey
HashDep(dkey) ==
    IF dkey \notin DOMAIN target_database
    THEN /\ stack' = <<>>
         /\ Raised(stack[1].t, "KeyError")
         /\ UNCHANGED targets
    ELSE IF ~HashMissing(targets[target_database[dkey]])
    THEN /\ stack' = Appended(stack, targets[target_database[dkey]].rule_hash.digest)
         /\ UNCHANGED <<targets, last>>
    ELSE IF Len(stack) >= MaxStack
    THEN /\ stack' = <<>>
         /\ Raised(stack[1].t, "RecursionError")
         /\ UNCHANGED targets
    ELSE /\ stack' = Append(stack, Frame(target_database[dkey]))
         /\ UNCHANGED <<targets, last>>

\* the top frame has the digests of all its deps: the digest is stored and
\* returned to the frame below, or to the driver
HashStore(f, digest) ==
    /\ targets' = [targets EXCEPT ![f.t].rule_hash = [none |-> FALSE, digest |-> digest]]
    /\ IF Len(stack) = 1
       THEN /\ stack' = <<>>
            /\ Returned(f.t, digest)
       ELSE /\ stack' = Appended(SubSeq(stack, 1, Len(stack) - 1), digest)
            /\ UNCHANGED last

\* the rule_hash call on top of the stack goes on by one step
RuleHashStep ==
    /\ stack # <<>>
    /\ IF stack[Len(stack)].k <= Len(HashDeps(targets[stack[Len(stack)].t]))
       THEN HashDep(HashDeps(targets[stack[Len(stack)].t])[stack[Len(stack)].k])
       ELSE HashStore(stack[Len(stack)],
                      md5sum(FactorsStr(targets[stack[Len(stack)].t],
                                        stack[Len(stack)].deps)))
    /\ UNCHANGED <<src_target_map, target_database, action, aborted, calls>>

\* the class of targets[i] registers an output file
CallAddTargetFile(i, label, path) ==
    /\ ~aborted
    /\ stack = <<>>
    /\ targets' = [targets EXCEPT ![i].data = AddTargetFile(@, label, path)]
    /\ last' = [NoCall EXCEPT !.op = "add", !.self = i, !.args = <<label, path>>]
    /\ calls' = calls + 1
    /\ UNCHANGED <<src_target_map, target_database, action, aborted, stack>>

\* the class of targets[i] registers its default output file
CallAddDefaultTargetFile(i, label, path) ==
    /\ ~aborted
    /\ stack = <<>>
    /\ targets' = [targets EXCEPT ![i].data = AddDefaultTargetFile(@, label, path)]
    /\ last' = [NoCall EXCEPT !.op = "add_default", !.self = i, !.args = <<label, path>>]
    /\ calls' = calls + 1
    /\ UNCHANGED <<src_target_map, target_database, action, aborted, stack>>

----------------------------------------------------------------------------
(* Rule hash specification: four registered targets and their deps *)

\* calls of the driver in the rule hash specification
MaxHashCalls == 3

kx == <<<<"a">>, <<"x">>>>
ky == <<<<"a">>, <<"y">>>>
kz == <<<<"a">>, <<"z">>>>
kw == <<<<"a">>, <<"w">>>>

\* deps of a:x, a:y and a:z, and what a:x has in expanded_deps only
Graphs ==
    { [x |-> <<ky, kz>>, y |-> <<kz>>, z |-> <<>>, more |-> <<>>],
      [x |-> <<ky>>, y |-> <<>>, z |-> <<>>, more |-> <<kz>>],
      [x |-> <<ky>>, y |-> <<kx>>, z |-> <<>>, more |-> <<>>],
      [x |-> <<kz, ky>>, y |-> <<kz>>, z |-> <<ky>>, more |-> <<>>],
      [x |-> <<>>, y |-> <<ky>>, z |-> <<kw>>, more |-> <<>>] }

\* a target of the hash specification
HashTarget(path, name, srcs, deps, more, script) ==
    [NewTarget(Key(path, name), name, path, "cc_library", FALSE, srcs, deps,
               deps \o more, PUBLIC) EXCEPT !.ninja_rules = script]

\* a:x, a:y, a:z and a/b:x, which has the name, the type and the deps of a:x
InitHash ==
    /\ src_target_map = <<>>
    /\ action = "error"
    /\ aborted = FALSE
    /\ calls = 0
    /\ last = NoCall
    /\ stack = <<>>
    /\ target_database = (kx :> 1) @@ (ky :> 2) @@ (kz :> 3) @@
                         (<<<<"a", "/", "b">>, <<"x">>>> :> 4)
    /\ \E g \in Graphs, s \in {<<>>, <<Add(main, out_p), BuildBare>>},
          srcs \in {<<<<"c">>>>, <<<<"d">>>>} :
          targets = << HashTarget(<<"a">>, <<"x">>, <<<<"c">>>>, g.x, g.more, s),
                       HashTarget(<<"a">>, <<"y">>, <<>>, g.y, <<>>, s),
                       HashTarget(<<"a">>, <<"z">>, <<>>, g.z, <<>>, <<>>),
                       HashTarget(<<"a", "/", "b">>, <<"x">>, srcs, g.x, g.more, <<>>) >>

NextHash ==
    \/ \E i \in 1..Len(targets) :
          calls < MaxHashCalls /\ CallRuleHash(i)
    \/ RuleHashStep
    \/ \E i \in 1..Len(targets) :
          calls < MaxHashCalls /\ CallGetRules(i)
    \/ \E i \in {1, 2} :
          calls < MaxHashCalls /\ CallAddTargetFile(i, extra, out_q)
    \/ \E i \in {1, 2} :
          calls < MaxHashCalls /\ CallAddDefaultTargetFile(i, main, out_p)

SpecHash == InitHash /\ [][NextHash]_vars

\* the interpreter goes on with a call that has not returned
SpecHashFair == SpecHash /\ WF_stack(RuleHashStep)

----------------------------------------------------------------------------
(* Rule generation: claims *)

IsRuleCall == last'.op \in {"get_rules", "get_file", "get_files"}
IsLookup == last'.op \in {"get_file", "get_files"}

\* the calls ninja_rules makes on its own object, in their order
IsReentrant(step) == step.op \in {"get_rules", "get_file", "get_files"}
ReentrantSteps(script) == SelectSeq(script, IsReentrant)

\* C11: over any sequence of get_rules, _get_target_file and
\* _get_target_files calls on a target, the calls its own ninja_rules makes
\* included, ninja_rules has run exactly once, started by the first call,
\* and every get_rules call returns the one list object bound then.
C11_GeneratedOnce ==
    [][IsRuleCall =>
          LET i == last'.self
          IN  /\ targets'[i].generated = 1
              /\ targets[i].generated = 1 <=> ~targets[i].build_rules.none
              /\ ~targets'[i].build_rules.none
              /\ targets'[i].build_rules.id = 1
              /\ (last'.op = "get_rules" /\ last'.outcome = "ok") =>
                    last'.result[1].id = 1
              /\ \A k \in 1..Len(last'.result[2]) :
                    ReentrantSteps(targets[i].ninja_rules)[k].op = "get_rules" =>
                       last'.result[2][k].id = 1
              /\ \A j \in 1..Len(targets) : j # i => targets'[j] = targets[j]]_vars

\* the third call on a target whose ninja_rules calls get_rules itself was a
\* get_rules call: it returned the list that the one run filled
C11_Witness ==
    /\ last.op = "get_rules"
    /\ last.outcome = "ok"
    /\ calls = 3
    /\ \A j \in 1..Len(targets) : j # last.self => targets[j].build_rules.none
    /\ \E k \in 1..Len(targets[last.self].ninja_rules) :
          targets[last.self].ninja_rules[k].op = "get_rules"
    /\ targets[last.self].generated = 1
    /\ last.result[1].id = 1
    /\ last.result[1].list # <<>>

\* the steps of a script that register label, and the last of them
Registers(script, label) ==
    {k \in 1..Len(script) : script[k].op \in {"add", "add_default"} /\ script[k].label = label}
Latest(S) == CHOOSE k \in S : \A j \in S : j <= k
Earliest(S) == CHOOSE k \in S : \A j \in S : k <= j

\* what the records hold under label when the script has run
FinalFile(script, label) ==
    IF Registers(script, label) = {} THEN Str(<<>>)
    ELSE script[Latest(Registers(script, label))].path

\* the default target when the script has run: the last one set as default,
\* else the first one registered
FinalDefault(script) ==
    LET defaults == {k \in 1..Len(script) : script[k].op = "add_default"}
        adds == {k \in 1..Len(script) : script[k].op = "add"}
    IN  IF defaults # {} THEN script[Latest(defaults)].path
        ELSE IF adds # {} THEN script[Earliest(adds)].path
        ELSE Str(<<>>)

\* the paths the records hold when the script has run
FinalPaths(script) ==
    UNION {{var_to_list(FinalFile(script, label))[n] :
               n \in 1..Len(var_to_list(FinalFile(script, label)))} :
           label \in {script[k].label : k \in Registers(script, main) \cup
                                               Registers(script, extra)}}

Raises(script) == \E k \in 1..Len(script) : script[k].op = "raise"

\* C12: a call of _get_target_file(label) or _get_target_files() on a target
\* whose rules were not generated runs ninja_rules to its end before it
\* reads the records: it returns what the whole rule generation registered,
\* although get_rules was not called before.
C12_LookupGeneratesFirst ==
    [][(IsLookup /\ targets[last'.self].build_rules.none) =>
          LET i == last'.self
              script == targets[i].ninja_rules
          IN  /\ targets'[i].generated = 1
              /\ last'.outcome = "ok" <=> ~Raises(script)
              /\ last'.outcome = "ok" =>
                    /\ last'.op = "get_file" =>
                          last'.result[1] = IF last'.args[1] # <<>>
                                            THEN FinalFile(script, last'.args[1])
                                            ELSE FinalDefault(script)
                    /\ last'.op = "get_files" =>
                          /\ {last'.result[1][n] : n \in 1..Len(last'.result[1])} =
                                FinalPaths(script)
                          /\ \A n \in 1..(Len(last'.result[1]) - 1) :
                                StrLess(last'.result[1][n], last'.result[1][n + 1])]_vars

\* the first call made on any target is _get_target_file('e'): it returns
\* the file that ninja_rules registers under 'e' in its third step
C12_Witness ==
    /\ calls = 1
    /\ last.op = "get_file"
    /\ last.outcome = "ok"
    /\ last.args = <<extra>>
    /\ Len(targets[last.self].ninja_rules) >= 3
    /\ targets[last.self].ninja_rules[3] = AddDefault(extra, out_p)
    /\ last.result[1] = out_p

\* words separated by single spaces
RECURSIVE SpaceJoin(_)
SpaceJoin(words) ==
    IF Len(words) = 0 THEN <<>>
    ELSE IF Len(words) = 1 THEN words[1]
    ELSE SpaceJoin(SubSeq(words, 1, Len(words) - 1)) \o <<" ">> \o words[Len(words)]

\* a str as the list of itself, a list as it is
Words(val) == IF val.t = "list" THEN val.v ELSE IF val.t = "str" THEN <<val.v>> ELSE <<>>
Given(val) == Words(val) # <<>> /\ Words(val) # <<<<>>>>

\* the lines of one build statement: the build line, a line for each
\* variable, a blank line
StatementLines(b) ==
    LET outs == Words(b.outputs) \o
                (IF Given(b.implicit_outputs) THEN <<<<"|">>>> \o Words(b.implicit_outputs)
                 ELSE <<>>)
        ins == (IF Given(b.inputs) THEN Words(b.inputs) ELSE <<>>) \o
               (IF Given(b.implicit_deps) THEN <<<<"|">>>> \o Words(b.implicit_deps)
                ELSE <<>>) \o
               (IF Given(b.order_only_deps)
                THEN <<<<"|", "|">>>> \o Words(b.order_only_deps) ELSE <<>>)
    IN  << <<"b", "u", "i", "l", "d", " ">> \o SpaceJoin(outs) \o <<":", " ">> \o b.rule \o
           <<" ">> \o SpaceJoin(ins) \o <<"\n">> >> \o
        [k \in 1..Len(b.variables) |->
            IF b.variables[k][2] = <<>>
            THEN <<" ", " ">> \o b.variables[k][1] \o <<" ", "=", "\n">>
            ELSE <<" ", " ">> \o b.variables[k][1] \o <<" ", "=", " ">> \o
                 b.variables[k][2] \o <<"\n">>] \o
        << <<"\n">> >>

\* the statements of the ninja_build calls among the first n steps
RECURSIVE Statements(_, _)
Statements(script, n) ==
    IF n = 0 THEN <<>>
    ELSE Statements(script, n - 1) \o
         (IF script[n].op = "build" THEN StatementLines(script[n]) ELSE <<>>)

\* the steps of a script that run: all of them, or those before its raise
Ran(script) ==
    IF Raises(script)
    THEN Earliest({k \in 1..Len(script) : script[k].op = "raise"}) - 1
    ELSE Len(script)

IsPrefix(s, l) == Len(s) <= Len(l) /\ SubSeq(l, 1, Len(s)) = s

\* C20: the rule sequence of a target is the statements of the ninja_build
\* calls of its rule generation in the order of the calls, each being the
\* build line (outputs, '|' and implicit outputs when given, ': ', rule,
\* inputs, '|' and implicit inputs when given, '||' and order-only inputs
\* when given), a '  name = value' line for each variable ('  name =' for
\* an empty value) and a blank line. What a get_rules call during the
\* generation saw stays the beginning of the sequence, and no later call
\* changes it.
C20_BuildStatements ==
    [][IsRuleCall =>
          LET i == last'.self
              script == targets[i].ninja_rules
          IN  /\ targets'[i].build_rules.list = Statements(script, Ran(script))
              /\ ~targets[i].build_rules.none =>
                    targets'[i].build_rules.list = targets[i].build_rules.list
              /\ \A k \in 1..Len(last'.result[2]) :
                    ReentrantSteps(script)[k].op = "get_rules" =>
                       IsPrefix(last'.result[2][k].list, targets'[i].build_rules.list)]_vars

\* get_rules on a target whose ninja_rules makes two ninja_build calls
\* returned the five lines of the two statements
C20_Witness ==
    /\ last.op = "get_rules"
    /\ last.outcome = "ok"
    /\ \E k \in 1..Len(targets[last.self].ninja_rules) :
          targets[last.self].ninja_rules[k] = BuildFull
    /\ Len(last.result[1].list) = 5
    /\ last.result[1].list[1] =
          <<"b", "u", "i", "l", "d", " ", "o", " ", "p", ":", " ", "l", "d", " ",
            "i", " ", "j", " ", "|", " ", "h", " ", "|", "|", " ", "g", " ", "k", "\n">>
    /\ last.result[1].list[2] = <<" ", " ", "v", " ", "=", " ", "2", "\n">>
    /\ last.result[1].list[3] = <<"\n">>
    /\ last.result[1].list[4] =
          <<"b", "u", "i", "l", "d", " ", "o", ":", " ", "a", "r", " ",
            "|", "|", " ", "g", "\n">>
    /\ last.result[1].list[5] = <<"\n">>

----------------------------------------------------------------------------
(* Rule hash: claims *)

HashTargets == 1..4
HashReturned == last'.op = "rule_hash" /\ last'.outcome = "ok"

\* the digest of the declared content of targets[i] and of its deps: its
\* type, name and sources, its attributes as its construction left them,
\* and these digests of its deps
RECURSIVE DeclaredDigest(_)
DeclaredDigest(i) ==
    md5sum(FactorsStr([targets[i] EXCEPT !.data = NewData],
                      [k \in 1..Len(targets[i].deps) |->
                          DeclaredDigest(target_database[targets[i].deps[k]])]))

\* C13: the digest a rule_hash call returns is the digest of the declared
\* content of the target and of its deps, whatever get_rules calls,
\* registrations of output files and rule_hash calls on other targets were
\* made before it.
C13_Original ==
    [][HashReturned => last'.result[1] = DeclaredDigest(last'.self)]_vars

\* an output file was registered for a target before its first rule_hash
\* call: the digest returned is not the digest of its declared content
C13_Witness ==
    /\ last.op = "rule_hash"
    /\ last.outcome = "ok"
    /\ targets[last.self].deps = <<>>
    /\ targets[last.self].data.targets # <<>>
    /\ last.result[1] = md5sum(FactorsStr(targets[last.self], <<>>))
    /\ last.result[1] # md5sum(FactorsStr([targets[last.self] EXCEPT !.data = NewData], <<>>))

\* C14: the digest of a target is computed at most once: a stored digest is
\* never replaced, a call on a target that has one returns it without a
\* frame for the target or its deps, and every call returns the stored
\* digest.
C14_HashStoredOnce ==
    [][/\ \A i \in HashTargets :
             ~targets[i].rule_hash.none => targets'[i].rule_hash = targets[i].rule_hash
       /\ HashReturned => /\ ~targets'[last'.self].rule_hash.none
                          /\ last'.result[1] = targets'[last'.self].rule_hash.digest
       /\ (/\ calls' = calls + 1
           /\ last'.op \in {"rule_hash", "rule_hash_called"}
           /\ ~targets[last'.self].rule_hash.none) =>
             /\ HashReturned
             /\ stack' = <<>>
             /\ targets' = targets
             /\ last'.result[1] = targets[last'.self].rule_hash.digest
       /\ Len(stack') > Len(stack) => targets[stack'[Len(stack')].t].rule_hash.none]_vars

\* the third call of the driver is a rule_hash call on a target whose
\* output files changed after its digest was stored: it returns the stored
\* digest, which is not what a computation would give now
C14_Witness ==
    /\ calls = 3
    /\ stack = <<>>
    /\ last.op = "rule_hash"
    /\ last.outcome = "ok"
    /\ targets[last.self].deps = <<>>
    /\ last.result[1] = targets[last.self].rule_hash.digest
    /\ last.result[1] # md5sum(FactorsStr(targets[last.self], <<>>))

\* the digests of the deps that a digest was computed from
DepDigests(digest) == digest.md5[2][2]

\* C15: two targets of the same type, name, sources and dep digests have
\* the same digest, and two targets that differ in their sources have
\* different digests.
C15_Original ==
    \A i, j \in HashTargets :
        (~targets[i].rule_hash.none /\ ~targets[j].rule_hash.none) =>
           /\ (/\ targets[i].type = targets[j].type
               /\ targets[i].name = targets[j].name
               /\ targets[i].srcs = targets[j].srcs
               /\ DepDigests(targets[i].rule_hash.digest) =
                     DepDigests(targets[j].rule_hash.digest)) =>
                 targets[i].rule_hash.digest = targets[j].rule_hash.digest
           /\ targets[i].srcs # targets[j].srcs =>
                 targets[i].rule_hash.digest # targets[j].rule_hash.digest

\* a:x and a/b:x have the same type, name, sources and no deps; an output
\* file was registered for a:x only, and their digests differ
C15_Witness ==
    /\ ~targets[1].rule_hash.none
    /\ ~targets[4].rule_hash.none
    /\ targets[1].srcs = targets[4].srcs
    /\ targets[1].deps = <<>>
    /\ targets[4].deps = <<>>
    /\ targets[1].data.targets # <<>>
    /\ targets[4].data.targets = <<>>
    /\ targets[1].rule_hash.digest # targets[4].rule_hash.digest

\* the targets that targets[i] names in deps
DepTargetsOf(i) ==
    {target_database[targets[i].deps[k]] :
        k \in {n \in 1..Len(targets[i].deps) : targets[i].deps[n] \in DOMAIN target_database}}

\* the targets reached from the set S through deps in at most n steps
RECURSIVE Reached(_, _)
Reached(S, n) ==
    IF n = 0 THEN S ELSE Reached(S \cup UNION {DepTargetsOf(j) : j \in S}, n - 1)

Reach(i) == Reached({i}, 4)
OnCycle(j) == j \in Reached(DepTargetsOf(j), 4)
ReachesCycle(i) == \E j \in Reach(i) : OnCycle(j)
AllKeysPresent(i) ==
    \A j \in Reach(i) : \A k \in 1..Len(targets[j].deps) :
        targets[j].deps[k] \in DOMAIN target_database

\* the driver's call of rule_hash on targets[i] has not returned
Hashing(i) == stack # <<>> /\ stack[1].t = i

\* C19: a rule_hash call on a target that reaches no cycle through deps,
\* all dep keys being in the database, returns, and has then stored a
\* digest for the target. A digest is computed at most once for a target;
\* the calls follow deps only, so that only targets reached through deps
\* get a digest. A call on a target that reaches a cycle through deps never
\* returns a digest (the recursion goes on until the interpreter stops it),
\* and no target on a cycle ever has a digest.
C19_HashTermination ==
    /\ \A i \in HashTargets :
          (Hashing(i) /\ ~ReachesCycle(i) /\ AllKeysPresent(i)) ~>
             (/\ stack = <<>>
              /\ last.op = "rule_hash"
              /\ last.outcome = "ok"
              /\ last.self = i
              /\ ~targets[i].rule_hash.none)
    /\ [][/\ \A n \in 2..Len(stack') :
                /\ stack'[n - 1].k <= Len(targets[stack'[n - 1].t].deps)
                /\ targets[stack'[n - 1].t].deps[stack'[n - 1].k] \in DOMAIN target_database
                /\ stack'[n].t =
                      target_database[targets[stack'[n - 1].t].deps[stack'[n - 1].k]]
          /\ \A j \in HashTargets :
                targets'[j].rule_hash # targets[j].rule_hash =>
                   /\ targets[j].rule_hash.none
                   /\ stack # <<>>
                   /\ j \in Reach(stack[1].t)
          /\ (stack # <<>> /\ ReachesCycle(stack[1].t)) =>
                ~(stack' = <<>> /\ last'.outcome = "ok")
          /\ \A j \in HashTargets : OnCycle(j) => targets'[j].rule_hash.none]_vars

\* rule_hash on a:x, which has a:y and a:z in deps, a:y having a:z in deps,
\* returned: the three targets have their digests and a/b:x has none
C19_Witness ==
    /\ stack = <<>>
    /\ last.op = "rule_hash"
    /\ last.outcome = "ok"
    /\ last.self = 1
    /\ targets[1].deps = <<ky, kz>>
    /\ targets[2].deps = <<kz>>
    /\ ~targets[1].rule_hash.none
    /\ ~targets[2].rule_hash.none
    /\ ~targets[3].rule_hash.none
    /\ targets[4].rule_hash.none
    /\ DepDigests(targets[1].rule_hash.digest) =
          <<targets[2].rule_hash.digest, targets[3].rule_hash.digest>>

----------------------------------------------------------------------------
(* Command line references: normalize *)

\* console.fatal ends the process
NormalizeFatal(target) ==
    ~startswith(target, <<"/", "/">>) /\ startswith(target, <<"/">>)

\* a bug that joins the working directory to every reference
RootedAlwaysJoined(target, working_dir) ==
    IF working_dir # <<".">>
    THEN path_join(working_dir,
                   IF startswith(target, <<"/", "/">>)
                   THEN SubSeq(target, 3, Len(target)) ELSE target)
    ELSE IF startswith(target, <<"/", "/">>) THEN SubSeq(target, 3, Len(target))
    ELSE target

\* the reference after its first branch: relative to blade_root_dir
Rooted(target, working_dir) ==
    IF startswith(target, <<"/", "/">>) THEN SubSeq(target, 3, Len(target))
    ELSE IF working_dir # <<".">> THEN path_join(working_dir, target)
    ELSE target

\* target.rsplit(':', 1)
SplitLastColon(target) == rsplit1(target, ":")

\* <<path, name>> of a rooted reference
PathAndName(target) ==
    IF contains(target, <<":">>) THEN SplitLastColon(target)
    ELSE IF endswith(target, <<".", ".", ".">>)
    THEN <<SubSeq(target, 1, Len(target) - 3), <<".", ".", ".">>>>
    ELSE <<target, <<"*">>>>

\* '%s:%s' % (path, name)
Canonical(pn) == normpath(pn[1]) \o <<":">> \o pn[2]

\* _normalize_one(target, working_dir)
NormalizeOne(target, working_dir) ==
    IF NormalizeFatal(target) THEN [outcome |-> "fatal", value |-> <<>>]
    ELSE [outcome |-> "ok", value |-> Canonical(PathAndName(Rooted(target, working_dir)))]

\* [_normalize_one(target, working_dir) for target in targets] from the
\* i-th target on, done being the list so far
RECURSIVE NormalizeFrom(_, _, _, _)
NormalizeFrom(refs, working_dir, i, done) ==
    IF i > Len(refs) THEN [outcome |-> "ok", value |-> done]
    ELSE IF NormalizeFatal(refs[i]) THEN [outcome |-> "fatal", value |-> <<>>]
    ELSE NormalizeFrom(refs, working_dir, i + 1,
                       Append(done, NormalizeOne(refs[i], working_dir).value))

\* normalize(targets, working_dir)
Normalize(refs, working_dir) == NormalizeFrom(refs, working_dir, 1, <<>>)

\* the state after a normalize call that gave r
Normalized(r, refs, working_dir) ==
    /\ aborted' = (r.outcome = "fatal")
    /\ last' = [op |-> "normalize", outcome |-> r.outcome,
                reason |-> IF r.outcome = "fatal" THEN "root" ELSE "none",
                self |-> 0, args |-> <<refs, working_dir>>,
                result |-> r.value, warnings |-> <<>>]
    /\ calls' = calls + 1
    /\ UNCHANGED <<src_target_map, target_database, targets, action, stack>>

\* a caller calls normalize(targets, working_dir)
CallNormalize(refs, working_dir) ==
    /\ ~aborted
    /\ stack = <<>>
    /\ Normalized(Normalize(refs, working_dir), refs, working_dir)

\* a caller normalizes, from the root, the first reference normalize gave it
Renormalize ==
    /\ last.op = "normalize"
    /\ last.outcome = "ok"
    /\ last.result # <<>>
    /\ CallNormalize(<<last.result[1]>>, <<".">>)

MaxNormCalls == 2

\* //lib/util:helper
RefAbsolute == <<"/", "/", "l", "i", "b", "/", "u", "t", "i", "l", ":", "h", "e", "l", "p", "e", "r">>
\* helper
RefBare == <<"h", "e", "l", "p", "e", "r">>
\* /a:x
RefRooted == <<"/", "a", ":", "x">>
\* ///abs:x
RefTriple == <<"/", "/", "/", "a", "b", "s", ":", "x">>
\* ////a:x
RefQuad == <<"/", "/", "/", "/", "a", ":", "x">>
\* a/...
RefTree == <<"a", "/", ".", ".", ".">>
\* ...
RefDots == <<".", ".", ".">>
\* a:b//c:d
RefColons == <<"a", ":", "b", "/", "/", "c", ":", "d">>
\* ../x:y
RefUp == <<".", ".", "/", "x", ":", "y">>
\* a//b/./c:n
RefUntidy == <<"a", "/", "/", "b", "/", ".", "/", "c", ":", "n">>
\* :x
RefNoPath == <<":", "x">>
\* x:
RefNoName == <<"x", ":">>
\* //a/b/...
RefAbsTree == <<"/", "/", "a", "/", "b", "/", ".", ".", ".">>
\* //a/b/
RefDir == <<"/", "/", "a", "/", "b", "/">>

References ==
    {RefAbsolute, RefBare, RefRooted, RefTriple, RefQuad, RefTree, RefDots, RefColons, RefUp, RefUntidy, RefNoPath, RefNoName, RefAbsTree, RefDir}

\* the references that the lists of two are made of
PairReferences == {RefAbsolute, RefBare, RefRooted, RefTree, RefColons}

\* the lists of at most two references
ReferenceLists ==
    {<<>>} \cup {<<r>> : r \in References} \cup {<<r, s>> : r, s \in PairReferences}

\* ., a and app/service
WorkingDirs == {<<".">>, <<"a">>, <<"a", "p", "p", "/", "s", "e", "r", "v", "i", "c", "e">>}

NextNormalize ==
    \/ \E refs \in ReferenceLists, working_dir \in WorkingDirs :
          calls < MaxNormCalls /\ CallNormalize(refs, working_dir)
    \/ calls < MaxNormCalls /\ Renormalize

SpecNormalize == Init /\ [][NextNormalize]_vars

----------------------------------------------------------------------------
(* Command line references: claims *)

IsNormalize == last.op = "normalize"

\* C16: normalizing, from the root, the reference that normalize gave for a
\* single reference gives that reference again.
C16_Original ==
    [][(/\ IsNormalize
        /\ last.outcome = "ok"
        /\ Len(last.args[1]) = 1
        /\ calls' = calls + 1
        /\ last'.op = "normalize"
        /\ last'.args = <<<<last.result[1]>>, <<".">>>>) =>
          (last'.outcome = "ok" /\ last'.result = last.result)]_vars

\* normalize(['///abs:x'], d) gave '/abs:x', and normalizing that is fatal
C16_Witness ==
    /\ IsNormalize
    /\ calls = 2
    /\ last.args = <<<<<<"/", "a", "b", "s", ":", "x">>>>, <<".">>>>
    /\ last.outcome = "fatal"
    /\ aborted

\* the index of the last colon of s
LastColon(s) == CHOOSE n \in 1..Len(s) : s[n] = ":" /\ \A k \in (n + 1)..Len(s) : s[k] # ":"

\* the reference that the path and the name are taken from
C17_Body(ref, working_dir) ==
    IF startswith(ref, <<"/", "/">>) THEN SubSeq(ref, 3, Len(ref))
    ELSE IF working_dir = <<".">> THEN ref
    ELSE working_dir \o <<"/">> \o ref

C17_Path(body) ==
    IF \E n \in 1..Len(body) : body[n] = ":" THEN SubSeq(body, 1, LastColon(body) - 1)
    ELSE IF endswith(body, <<".", ".", ".">>) THEN SubSeq(body, 1, Len(body) - 3)
    ELSE body

C17_Name(body) ==
    IF \E n \in 1..Len(body) : body[n] = ":" THEN SubSeq(body, LastColon(body) + 1, Len(body))
    ELSE IF endswith(body, <<".", ".", ".">>) THEN <<".", ".", ".">>
    ELSE <<"*">>

C17_SingleSlash(ref) == ref # <<>> /\ ref[1] = "/" /\ (Len(ref) = 1 \/ ref[2] # "/")

\* C17: a normalize call is fatal exactly when one of its references starts
\* with a single '/'; otherwise its result has the length of the list and
\* its i-th entry is 'path:name' for the i-th reference: the reference
\* without its leading '//', or else joined to the working directory
\* unless that is '.', is split on its last colon, or else gives the part
\* before a final '...' and the name '...', or else is the path, with the
\* name '*'; the path is normalized. '//lib/util:helper' from 'app/service'
\* gives 'lib/util:helper' and 'helper' from '.' gives 'helper:*'.
C17_NormalizeRules ==
    IsNormalize =>
       /\ last.outcome = "fatal" <=>
             \E k \in 1..Len(last.args[1]) : C17_SingleSlash(last.args[1][k])
       /\ last.outcome \in {"ok", "fatal"}
       /\ last.outcome = "ok" =>
             /\ Len(last.result) = Len(last.args[1])
             /\ \A k \in 1..Len(last.result) :
                   /\ last.result[k] =
                         normpath(C17_Path(C17_Body(last.args[1][k], last.args[2])))
                            \o <<":">> \o C17_Name(C17_Body(last.args[1][k], last.args[2]))
                   /\ (last.args[1][k] = RefAbsolute /\ last.args[2] = <<"a", "p", "p", "/", "s", "e", "r", "v", "i", "c", "e">>) =>
                         last.result[k] = <<"l", "i", "b", "/", "u", "t", "i", "l", ":", "h", "e", "l", "p", "e", "r">>
                   /\ (last.args[1][k] = RefBare /\ last.args[2] = <<".">>) =>
                         last.result[k] = <<"h", "e", "l", "p", "e", "r", ":", "*">>

\* normalize(['//lib/util:helper', '//lib/util:helper'], 'app/service') gave
\* the canonical form twice
C17_Witness ==
    /\ IsNormalize
    /\ last.outcome = "ok"
    /\ last.args = <<<<RefAbsolute, RefAbsolute>>, <<"a", "p", "p", "/", "s", "e", "r", "v", "i", "c", "e">>>>
    /\ last.result = <<<<"l", "i", "b", "/", "u", "t", "i", "l", ":", "h", "e", "l", "p", "e", "r">>, <<"l", "i", "b", "/", "u", "t", "i", "l", ":", "h", "e", "l", "p", "e", "r">>>>

----------------------------------------------------------------------------
(* Visibility *)

\* target A may depend on target B
MayDepend(A, B) ==
    \/ B.visibility.public
    \/ InList(A.key, B.visibility.keys)
    \/ A.path = B.path

\* the dependency analysis checks the k-th dep of targets[i], a registered
\* target; a violation is fatal
CheckVisible(i, k) ==
    /\ ~aborted
    /\ stack = <<>>
    /\ Unregistered = {}
    /\ targets[i].deps[k] \in DOMAIN target_database
    /\ aborted' = ~MayDepend(targets[i], targets[target_database[targets[i].deps[k]]])
    /\ last' = [NoCall EXCEPT
                  !.op = "visible", !.self = i,
                  !.args = <<target_database[targets[i].deps[k]]>>,
                  !.outcome = IF MayDepend(targets[i],
                                           targets[target_database[targets[i].deps[k]]])
                              THEN "ok" ELSE "fatal",
                  !.reason = IF MayDepend(targets[i],
                                          targets[target_database[targets[i].deps[k]]])
                             THEN "none" ELSE "not_visible"]
    /\ UNCHANGED <<src_target_map, target_database, targets, action, calls, stack>>

MaxVisCalls == 3

PublicWord == <<"P", "U", "B", "L", "I", "C">>
OtherDirX == <<"/", "/", "a", "/", "b", ":", "x">>      \* //a/b:x
SubDirX == <<".", "/", "b", ":", "x">>                  \* ./b:x
SameDirX == <<"/", "/", "a", ":", "x">>                 \* //a:x

\* the visibility arguments of a:y
VisLists ==
    { NoneList, <<PublicWord>>, <<>>, <<OtherDirX>>, <<SubDirX>>, <<OtherDirX, SubDirX>>,
      <<SameDirX>>, <<PublicWord, OtherDirX>>, <<SystemLib>>, <<RootNoColon>> }

\* the BUILD rules: a:y with a visibility, and a:x and a/b:x that depend
\* on y of their directory or on a:y
VisRules ==
    {<<a, y, <<>>, v>> : v \in VisLists}
       \cup {<<p, x, d, NoneList>> : p \in {a, a_b}, d \in {<<SameDir>>, <<FromRoot>>}}

NextVis ==
    \/ \E r \in VisRules :
          /\ calls < MaxVisCalls
          /\ Unregistered = {}
          /\ Construct(r[1], r[2], "cc_library", FALSE, <<>>, r[3], r[4], {})
    \/ \E i \in Unregistered : Register(i)
    \/ \E i \in UserTargets : \E k \in 1..Len(targets[i].deps) : CheckVisible(i, k)

SpecVis == InitDeps /\ [][NextVis]_vars

----------------------------------------------------------------------------
(* Visibility: claims *)

\* list without the later occurrences of its entries
RECURSIVE C18_Dedup(_)
C18_Dedup(list) ==
    IF list = <<>> THEN <<>>
    ELSE LET front == C18_Dedup(SubSeq(list, 1, Len(list) - 1))
         IN  IF InList(list[Len(list)], front) THEN front
             ELSE Append(front, list[Len(list)])

C18_Declared == last'.args[6]
C18_Sentinel == C18_Declared = NoneList \/ C18_Declared = <<PublicWord>>
C18_Built == targets'[last'.self]
C18_A == targets'[last'.self]
C18_B == targets'[last'.args[1]]

\* C18: a target constructed with no visibility or with ['PUBLIC'] has the
\* PUBLIC sentinel; one constructed with a list has as its visibility the
\* keys that the dependency format check and key resolution give for the
\* declared strings, each once, in order, and its construction fails when
\* a string fails them; the visibility of a target never changes. A check
\* of a dep of A that is the target B succeeds exactly when B has the
\* PUBLIC sentinel, or the key of A is in the visibility of B, or A and B
\* are in the same directory: it always succeeds on PUBLIC and never on an
\* empty list and a different directory.
C18_Visibility ==
    [][/\ (IsConstruct /\ last'.outcome = "ok" /\ C18_Sentinel) =>
             C18_Built.visibility = PUBLIC
       /\ (IsConstruct /\ last'.outcome = "ok" /\ ~C18_Sentinel) =>
             /\ ~C18_Built.visibility.public
             /\ \A k \in 1..Len(C18_Declared) : ~CheckFormatFatal(C18_Declared[k])
             /\ C18_Built.visibility.keys =
                   C18_Dedup([k \in 1..Len(C18_Declared) |->
                                UnifyDep(C18_Built.path, C18_Declared[k],
                                         target_database', targets').dkey])
       /\ (IsConstruct /\ last'.reason = "visibility") =>
             /\ last'.outcome # "ok"
             /\ ~C18_Sentinel
             /\ \E k \in 1..Len(C18_Declared) :
                   \/ CheckFormatFatal(C18_Declared[k])
                   \/ UnifyDep(last'.args[1], C18_Declared[k],
                               target_database', targets').outcome # "ok"
       /\ \A i \in 1..Len(targets) : targets'[i].visibility = targets[i].visibility
       /\ last'.op = "visible" =>
             /\ last'.outcome = "ok" <=>
                   \/ C18_B.visibility = PUBLIC
                   \/ \E k \in 1..Len(C18_B.visibility.keys) :
                         C18_B.visibility.keys[k] = C18_A.key
                   \/ C18_A.path = C18_B.path
             /\ last'.outcome \in {"ok", "fatal"}
             /\ aborted' = (last'.outcome = "fatal")
             /\ C18_B.visibility = PUBLIC => last'.outcome = "ok"
             /\ (C18_B.visibility = [public |-> FALSE, keys |-> <<>>]
                    /\ C18_A.path # C18_B.path) => last'.outcome = "fatal"]_vars

\* a:y was declared visible to a/b:x, in two spellings that give its one
\* key, and the check of the dep of a/b:x on a:y succeeded
C18_Witness ==
    /\ last.op = "visible"
    /\ last.outcome = "ok"
    /\ targets[last.self].key = Key(a_b, x)
    /\ targets[last.args[1]].key = Key(a, y)
    /\ targets[last.args[1]].visibility = [public |-> FALSE, keys |-> <<Key(a_b, x)>>]

----------------------------------------------------------------------------
(* Rule generation: failures *)

\* C21: a call whose rule generation raised leaves the list bound, holding
\* the lines written before the raise; every later get_rules call on the
\* target returns that list with those lines and runs no rule generation.
C21_RaiseKeepsRules ==
    [][/\ (IsRuleCall /\ last'.outcome = "raise") =>
             /\ targets[last'.self].build_rules.none
             /\ Raises(targets[last'.self].ninja_rules)
             /\ ~targets'[last'.self].build_rules.none
             /\ targets'[last'.self].generated = 1
             /\ targets'[last'.self].build_rules.list =
                   Statements(targets[last'.self].ninja_rules,
                              Ran(targets[last'.self].ninja_rules))
       /\ (/\ last'.op = "get_rules"
           /\ calls' = calls + 1
           /\ ~targets[last'.self].build_rules.none) =>
             /\ last'.outcome = "ok"
             /\ last'.result[1] = targets[last'.self].build_rules
             /\ last'.result[2] = <<>>
             /\ targets' = targets]_vars

\* the rule generation of a target wrote a build statement, registered a
\* file and raised; the third call on the target is a get_rules call and
\* returns the three lines of the statement, the generation having run once
C21_Witness ==
    /\ calls = 3
    /\ last.op = "get_rules"
    /\ last.outcome = "ok"
    /\ \A j \in 1..Len(targets) : j # last.self => targets[j].build_rules.none
    /\ targets[last.self].ninja_rules = <<BuildFull, Add(main, out_q), Raise>>
    /\ targets[last.self].generated = 1
    /\ Len(last.result[1].list) = 3
    /\ last.result[1].list = StatementLines(BuildFull)

----------------------------------------------------------------------------
(* Output file specification: a target whose rule generation is a sequence
   of registrations of output files *)

MaxFileCalls == 2
MaxFileSteps == 3

FileSteps ==
    { Add(main, out_p), Add(main, out_q), Add(extra, out_q), Add(extra, out_list),
      AddDefault(main, out_q), AddDefault(extra, out_p) }

\* the sequences of at most MaxFileSteps registrations
FileSequences == UNION {[1..n -> FileSteps] : n \in 0..MaxFileSteps}

\* the target a:x, no sources, no deps, not yet registered
InitFiles ==
    /\ src_target_map = <<>>
    /\ target_database = <<>>
    /\ action = "error"
    /\ aborted = FALSE
    /\ calls = 0
    /\ last = NoCall
    /\ stack = <<>>
    /\ \E s \in FileSequences :
          targets = << [NewTarget(Key(<<"a">>, <<"x">>), <<"x">>, <<"a">>, "gen_rule", FALSE,
                                  <<>>, <<>>, <<>>, PUBLIC) EXCEPT !.ninja_rules = s] >>

NextFiles ==
    \/ calls < MaxFileCalls /\ CallGetRules(1)
    \/ \E label \in Labels : calls < MaxFileCalls /\ CallGetTargetFile(1, label)
    \/ calls < MaxFileCalls /\ CallGetTargetFiles(1)

SpecFiles == InitFiles /\ [][NextFiles]_vars

----------------------------------------------------------------------------
(* Output files: claims *)

\* C22: when the registrations of a target have run, its default target
\* file is the path of the last _add_default_target_file call if there was
\* one, else the path of the first _add_target_file call, else ''; the
\* record of a label is the path last registered under it; and
\* _get_target_file('') returns the default, _get_target_file(label) the
\* record of the label, '' for a label never registered.
C22_DefaultAndLabels ==
    [][IsRuleCall =>
          /\ last'.outcome = "ok"
          /\ targets'[1].data.default_target = FinalDefault(targets[1].ninja_rules)
          /\ \A label \in {main, extra} :
                DictGet(targets'[1].data.targets, label, Str(<<>>)) =
                   FinalFile(targets[1].ninja_rules, label)
          /\ \A k \in 1..Len(targets'[1].data.targets) :
                Registers(targets[1].ninja_rules, targets'[1].data.targets[k][1]) # {}
          /\ last'.op = "get_file" =>
                last'.result[1] =
                   IF last'.args[1] = <<>> THEN FinalDefault(targets[1].ninja_rules)
                   ELSE FinalFile(targets[1].ninja_rules, last'.args[1])]_vars

\* 'p' was registered under 'm', then 'q/p' as the default under 'm', then
\* a list under 'e'; the second call, _get_target_file(''), returned 'q/p'
C22_Witness ==
    /\ calls = 2
    /\ last.op = "get_file"
    /\ last.outcome = "ok"
    /\ last.args = <<<<>>>>
    /\ targets[1].ninja_rules =
          <<Add(main, out_p), AddDefault(main, out_q), Add(extra, out_list)>>
    /\ last.result[1] = out_q
    /\ targets[1].data.targets = <<<<main, out_q>>, <<extra, out_list>>>>

\* C23: the default target file of a target is '' or the path stored under
\* one of the labels of its records, and then one of the files that
\* _get_target_files() returns.
C23_Original ==
    \A i \in 1..Len(targets) :
        \/ targets[i].data.default_target = Str(<<>>)
        \/ /\ \E k \in 1..Len(targets[i].data.targets) :
                 targets[i].data.targets[k][2] = targets[i].data.default_target
           /\ targets[i].data.default_target.t = "str"
           /\ InList(targets[i].data.default_target.v,
                     ReadTargetFiles(targets[i].data))

\* 'p' and then 'q/p' were registered under 'm': the default is 'p', and
\* _get_target_files() returned 'q/p' only
C23_Witness ==
    /\ last.op = "get_files"
    /\ last.outcome = "ok"
    /\ targets[1].ninja_rules = <<Add(main, out_p), Add(main, out_q)>>
    /\ targets[1].data.default_target = out_p
    /\ targets[1].data.targets = <<<<main, out_q>>>>
    /\ last.result[1] = <<out_q.v>>

----------------------------------------------------------------------------
(* Failed construction specification: targets with sources whose deps or
   visibility may end the construction *)

MaxFailCalls == 2

\* deps and visibility of a BUILD rule: valid ones; a dep without marker
\* (fatal in _check_deps); deps without colon or with '..' (raised by
\* _unify_dep); 'PUBLIC' in a longer visibility (fatal); a visibility
\* without colon (raised)
FailRules ==
    { <<<<>>, NoneList>>,
      <<<<NoMarker>>, NoneList>>,
      <<<<RootNoColon>>, NoneList>>,
      <<<<DotEscaping>>, NoneList>>,
      <<<<SameDir>>, <<PublicWord, OtherDirX>>>>,
      <<<<>>, <<RootNoColon>>>> }

NextFail ==
    \E name \in {x, y}, srcs \in {<<c_cc>>, <<b_c_cc>>}, r \in FailRules :
        /\ calls < MaxFailCalls
        /\ Construct(a, name, "cc_library", FALSE, srcs, r[1], r[2], {})

SpecFail == Init /\ [][NextFail]_vars

----------------------------------------------------------------------------
(* Failed construction: claims *)

\* the construction ended after _check_srcs: in _check_deps,
\* _init_target_deps or _init_visibility
FailedAfterSrcs ==
    /\ IsConstruct
    /\ last'.outcome # "ok"
    /\ last'.reason \in {"dep_format", "dep_unify", "visibility"}

\* C24: a construction that ends in the format check of its deps, in their
\* key resolution or in its visibility leaves the Source Ownership Registry
\* as it was before the construction.
C24_Original ==
    [][FailedAfterSrcs => src_target_map' = src_target_map]_vars

\* the construction of a:x with the source c and the dep //a raised in
\* _unify_dep: no target was made, and a/c is claimed by a:x
C24_Witness ==
    /\ last.op = "construct"
    /\ last.outcome = "raise"
    /\ last.reason = "dep_unify"
    /\ last.args[2] = x
    /\ last.args[5] = <<RootNoColon>>
    /\ calls = 1
    /\ targets = <<>>
    /\ <<"a", "/", "c">> \in DOMAIN src_target_map
    /\ src_target_map[<<"a", "/", "c">>] = <<Fullname(Key(a, x)), FALSE>>

====
